---- MODULE Spec2Model ----
(***************************************************************************)
(* State-machine model of the <form-validation-list> custom element        *)
(* (src/form-validation-list.js).  The widget's handlers are operators on  *)
(* a world record w (the widget's private fields, its attributes, and the  *)
(* part of the DOM it touches); every action applies one handler to the    *)
(* current world and commits the result.                                   *)
(*                                                                         *)
(* Abstractions: strings that the code only compares (ids, class names,    *)
(* event names, attribute values) are TLA+ strings; a field value is a     *)
(* sequence of characters; a message template is a sequence of tokens in   *)
(* which "{matched}" and "{total}" are tokens of their own; the value of a  *)
(* field's aria-describedby is the sequence of pieces split(' ') cuts it   *)
(* into; every field is an input element (it has setCustomValidity);       *)
(* patterns are well-formed.  The custom-element registry is a record: its *)
(* kind says whether window.customElements exists and has a define         *)
(* function, its map gives the class registered under each valid name.     *)
(* An element created before its class is defined is not upgraded: what    *)
(* the page assigns to it becomes an own property (ownProps), which the    *)
(* first connectedCallback hands to the setter.                            *)
(*                                                                         *)
(* JavaScript runs one task at a time: a handler (an event listener, a     *)
(* lifecycle callback, a timer callback) runs to its end before the next   *)
(* starts, so each is one step.  Code of the page runs inside a handler    *)
(* only where the handler dispatches an event; what it finds there is      *)
(* recorded in the event.                                                  *)
(***************************************************************************)
EXTENDS Integers, Sequences, FiniteSets, TLC

VARIABLES attrs, id, role, isConnected,
          _field, _rules, _validationHandler, _isValid,
          _validClasses, _invalidClasses, _matchedClasses, _unmatchedClasses,
          _pendingTimeouts, _currentTriggerEvent,
          stylesInjected, headStyles,
          fieldValue, fieldClasses, customValidity, describedBy, listeners,
          listenerOrder,
          domRules, dataPattern, ruleClasses, ruleRole, ruleLive, timers,
          registry, upgraded, ownProps, peer,
          events, evals, lastOp

vars == <<attrs, id, role, isConnected,
          _field, _rules, _validationHandler, _isValid,
          _validClasses, _invalidClasses, _matchedClasses, _unmatchedClasses,
          _pendingTimeouts, _currentTriggerEvent,
          stylesInjected, headStyles,
          fieldValue, fieldClasses, customValidity, describedBy, listeners,
          listenerOrder,
          domRules, dataPattern, ruleClasses, ruleRole, ruleLive, timers,
          registry, upgraded, ownProps, peer,
          events, evals, lastOp>>

----------------------------------------------------------------------------
(* Bounds and input domains *)

\* most rule-bearing descendants the widget has
MaxRules == 2

\* null / undefined / an absent attribute
Null == "<null>"
\* no handler object
NoHandler == 0

\* the input elements of the document, named by their ids
Fields == {"f1", "f2"}
\* an id that resolves to no element
MissingId == "missing"

\* rule elements in document order, and the data-pattern each one carries
RuleElements == 1..MaxRules
PatternList == <<"[A-Z]+", "[a-z]+", "[0-9]+">>
PatternOf(el) == PatternList[((el - 1) % Len(PatternList)) + 1]

\* field values: "", "a", "Aa", "Aa1"
Values == {<<>>, <<"a">>, <<"A", "a">>, <<"A", "a", "1">>}

\* event types dispatched on a field
EventTypes == {"input", "change"}

ObservedAttributes == {"for", "trigger-event", "each-delay",
                       "field-invalid-class", "field-valid-class",
                       "rule-unmatched-class", "rule-matched-class",
                       "validation-message"}

FieldClassAttrs == {"field-invalid-class", "field-valid-class"}
RuleClassAttrs == {"rule-unmatched-class", "rule-matched-class"}

DefaultTemplate == "Please match all validation requirements ({matched} of {total})"

\* tag names: the default one, two other valid ones, and one that is not a
\* valid custom-element name (it has no hyphen)
DefaultTag == "form-validation-list"
RegistryTags == {DefaultTag, "my-validation-list", "x-rules", "validationlist"}
ValidTags == RegistryTags \ {"validationlist"}

\* the widget's class, and a class that is not the widget's
FormValidationListElement == "FormValidationListElement"
OtherElement == "OtherElement"

\* the id #generateId produces (Math.random: any value of this set)
GeneratedIds == {"form-validation-list-k3x"}

----------------------------------------------------------------------------
(* Host platform: strings, regular expressions, numbers *)

\* JavaScript truthiness of a string-or-null
Truthy(s) == s # Null /\ s # ""

\* a || b for strings
OrElse(a, b) == IF Truthy(a) THEN a ELSE b

IsUpper(c) == c \in {"A"}
IsLower(c) == c \in {"a"}
IsDigit(c) == c \in {"1"}

\* new RegExp(pattern).test(value): the regex has no flags, so test is
\* stateless; an unanchored character-class pattern matches iff some
\* character of the value is in the class
RegExpTest(pattern, value) ==
    CASE pattern = "[A-Z]+" -> \E i \in 1..Len(value) : IsUpper(value[i])
      [] pattern = "[a-z]+" -> \E i \in 1..Len(value) : IsLower(value[i])
      [] pattern = "[0-9]+" -> \E i \in 1..Len(value) : IsDigit(value[i])
      [] pattern = "^[a-z]*$" -> \A i \in 1..Len(value) : IsLower(value[i])

\* a JavaScript number x is held as the integer x * PerUnit, so that the
\* numbers between two integers that the model uses (1.5) can be held
PerUnit == 2

\* Number(attrValue) for the attribute strings used here
NaN == [finite |-> FALSE, n |-> 0]
Number(s) ==
    CASE s = "0" -> [finite |-> TRUE, n |-> 0]
      [] s = "" -> [finite |-> TRUE, n |-> 0]
      [] s = "200" -> [finite |-> TRUE, n |-> 200 * PerUnit]
      [] s = "1.5" -> [finite |-> TRUE, n |-> 3]
      [] s = "-5" -> [finite |-> TRUE, n |-> (0 - 5) * PerUnit]
      [] OTHER -> NaN

\* the values a page assigns to a property: null, undefined, a string or a
\* number; a value is the triple of its type, its string and its number
JsNull == <<"null", "", 0>>
JsUndefined == <<"undefined", "", 0>>
JsString(s) == <<"string", s, 0>>
JsNumber(n) == <<"number", "", n * PerUnit>>
\* the element has no own property of that name
NoProperty == <<"none", "", 0>>

TypeOf(value) == value[1]
StringOf(value) == value[2]
NumberOf(value) == value[3]

\* the properties connectedCallback upgrades, in its order
UpgradedProperties == <<"for", "fieldId", "triggerEvent", "eachDelay",
                        "fieldInvalidClass", "fieldValidClass",
                        "ruleUnmatchedClass", "ruleMatchedClass",
                        "validationMessage">>

\* String(n) for the numbers used here
NumberToString(n) ==
    CASE n = 0 -> "0"
      [] n = 150 * PerUnit -> "150"
      [] n = 200 * PerUnit -> "200"
      [] n = 3 -> "1.5"
      [] n = (0 - 5) * PerUnit -> "-5"

\* String(value)
String(value) ==
    CASE TypeOf(value) = "string" -> StringOf(value)
      [] TypeOf(value) = "number" -> NumberToString(NumberOf(value))
      [] TypeOf(value) = "null" -> "null"
      [] TypeOf(value) = "undefined" -> "undefined"

\* String.prototype.trim for the strings used here
trim(s) ==
    CASE s = " change " -> "change"
      [] s = " c1 " -> "c1"
      [] s = "  " -> ""
      [] OTHER -> s

\* Number(value) for a value of any type: null is 0, undefined is NaN, a
\* string is parsed after trimming
ToNumber(value) ==
    CASE TypeOf(value) = "number" -> [finite |-> TRUE, n |-> NumberOf(value)]
      [] TypeOf(value) = "null" -> [finite |-> TRUE, n |-> 0]
      [] TypeOf(value) = "undefined" -> NaN
      [] TypeOf(value) = "string" -> Number(trim(StringOf(value)))

\* the tokens of a template string
Tokens(s) ==
    CASE s = DefaultTemplate ->
           <<"Please match all validation requirements (", "{matched}",
             " of ", "{total}", ")">>
      [] s = "{matched}/{total}" -> <<"{matched}", "/", "{total}">>
      [] s = "{total}{matched}{matched}{total}" ->
           <<"{total}", "{matched}", "{matched}", "{total}">>
      [] s = "fix it" -> <<"fix it">>
      [] s = "" -> <<>>

\* a replace that substitutes every occurrence (replaceAll)
RECURSIVE ReplaceAll(_, _, _)
ReplaceAll(toks, token, by) ==
    IF toks = <<>> THEN <<>>
    ELSE <<IF Head(toks) = token THEN by ELSE Head(toks)>>
         \o ReplaceAll(Tail(toks), token, by)

\* String.prototype.replace(token, by): replaces the first occurrence only
RECURSIVE ReplaceFirst(_, _, _)
ReplaceFirst(toks, token, by) ==
    IF toks = <<>> THEN <<>>
    ELSE IF Head(toks) = token THEN <<by>> \o Tail(toks)
    ELSE <<Head(toks)>> \o ReplaceFirst(Tail(toks), token, by)

\* the values a page gives a field's aria-describedby, as split(' ') cuts
\* them: none, one id, two ids separated by a space, two ids separated by a
\* tab (one piece), and lists that name the widget's own id "rules"
DescribedByLists == {<<>>, <<"existing-id">>, <<"existing-id", "other-id">>,
                     <<"existing-id", "rules">>, <<"existing-id\trules">>}

\* the id references a piece of an aria-describedby value holds: HTML
\* separates them by any ASCII whitespace
IdRefsOf(piece) ==
    CASE piece = "existing-id\trules" -> <<"existing-id", "rules">>
      [] piece = "" -> <<>>
      [] OTHER -> <<piece>>

\* the id references of an aria-describedby value, in order
RECURSIVE IdRefs(_)
IdRefs(pieces) ==
    IF pieces = <<>> THEN <<>>
    ELSE IdRefsOf(Head(pieces)) \o IdRefs(Tail(pieces))

\* a lookup that falls back to the first field of the document
getElementById_fallback(fid) == IF fid \in Fields THEN fid ELSE "f1"

\* document.getElementById
getElementById(fid) == IF fid \in Fields THEN fid ELSE Null

\* CustomElementRegistry.get
registryGet(reg, tagName) ==
    IF tagName \in ValidTags THEN reg.map[tagName] ELSE Null

\* CustomElementRegistry.define: it throws for a name that is not a valid
\* custom-element name, for a name already defined, and for a constructor
\* already defined under any name
registryDefine(reg, tagName, constructor) ==
    IF \/ tagName \notin ValidTags
       \/ reg.map[tagName] # Null
       \/ \E t \in ValidTags : reg.map[t] = constructor
    THEN [threw |-> TRUE, reg |-> reg]
    ELSE [threw |-> FALSE, reg |-> [reg EXCEPT !.map[tagName] = constructor]]

----------------------------------------------------------------------------
(* The world the handlers act on *)

World ==
    [attrs |-> attrs, id |-> id, role |-> role, isConnected |-> isConnected,
     _field |-> _field, _rules |-> _rules,
     _validationHandler |-> _validationHandler, _isValid |-> _isValid,
     _validClasses |-> _validClasses, _invalidClasses |-> _invalidClasses,
     _matchedClasses |-> _matchedClasses,
     _unmatchedClasses |-> _unmatchedClasses,
     _pendingTimeouts |-> _pendingTimeouts,
     _currentTriggerEvent |-> _currentTriggerEvent,
     stylesInjected |-> stylesInjected, headStyles |-> headStyles,
     fieldValue |-> fieldValue, fieldClasses |-> fieldClasses,
     customValidity |-> customValidity, describedBy |-> describedBy,
     listeners |-> listeners, listenerOrder |-> listenerOrder,
     domRules |-> domRules, dataPattern |-> dataPattern,
     ruleClasses |-> ruleClasses, ruleRole |-> ruleRole,
     ruleLive |-> ruleLive, timers |-> timers, registry |-> registry,
     upgraded |-> upgraded, ownProps |-> ownProps, peer |-> peer,
     events |-> <<>>, evals |-> 0]

Commit(w) ==
    /\ attrs' = w.attrs
    /\ id' = w.id
    /\ role' = w.role
    /\ isConnected' = w.isConnected
    /\ _field' = w._field
    /\ _rules' = w._rules
    /\ _validationHandler' = w._validationHandler
    /\ _isValid' = w._isValid
    /\ _validClasses' = w._validClasses
    /\ _invalidClasses' = w._invalidClasses
    /\ _matchedClasses' = w._matchedClasses
    /\ _unmatchedClasses' = w._unmatchedClasses
    /\ _pendingTimeouts' = w._pendingTimeouts
    /\ _currentTriggerEvent' = w._currentTriggerEvent
    /\ stylesInjected' = w.stylesInjected
    /\ headStyles' = w.headStyles
    /\ fieldValue' = w.fieldValue
    /\ fieldClasses' = w.fieldClasses
    /\ customValidity' = w.customValidity
    /\ describedBy' = w.describedBy
    /\ listeners' = w.listeners
    /\ listenerOrder' = w.listenerOrder
    /\ domRules' = w.domRules
    /\ dataPattern' = w.dataPattern
    /\ ruleClasses' = w.ruleClasses
    /\ ruleRole' = w.ruleRole
    /\ ruleLive' = w.ruleLive
    /\ timers' = w.timers
    /\ registry' = w.registry
    /\ upgraded' = w.upgraded
    /\ ownProps' = w.ownProps
    /\ peer' = w.peer
    /\ events' = w.events
    /\ evals' = w.evals

----------------------------------------------------------------------------
(* Configuration getters *)

getAttribute(w, name) == w.attrs[name]

fieldId(w) == getAttribute(w, "for")

\* a getter that answers the default whatever the attribute holds
triggerEvent_ignoresAttribute(w) == "input"

triggerEvent(w) == OrElse(getAttribute(w, "trigger-event"), "input")

\* a getter that answers the default whatever the attribute holds
eachDelay_ignoresAttribute(w) == 150 * PerUnit

eachDelay(w) ==
    LET attrValue == getAttribute(w, "each-delay")
        parsed == Number(attrValue)
    IN IF attrValue = Null \/ attrValue = "" THEN 150 * PerUnit
       ELSE IF parsed.finite /\ parsed.n >= 0 THEN parsed.n
       ELSE 150 * PerUnit

\* the class getters fill their cache; ret is the value returned and w the
\* world after the call
fieldInvalidClass(w) ==
    IF w._invalidClasses = Null
    THEN LET c == OrElse(getAttribute(w, "field-invalid-class"),
                         "validation-invalid")
         IN [ret |-> c, w |-> [w EXCEPT !._invalidClasses = c]]
    ELSE [ret |-> w._invalidClasses, w |-> w]

fieldValidClass(w) ==
    IF w._validClasses = Null
    THEN LET c == OrElse(getAttribute(w, "field-valid-class"),
                         "validation-valid")
         IN [ret |-> c, w |-> [w EXCEPT !._validClasses = c]]
    ELSE [ret |-> w._validClasses, w |-> w]

ruleUnmatchedClass(w) ==
    IF w._unmatchedClasses = Null
    THEN LET c == OrElse(getAttribute(w, "rule-unmatched-class"),
                         "validation-unmatched")
         IN [ret |-> c, w |-> [w EXCEPT !._unmatchedClasses = c]]
    ELSE [ret |-> w._unmatchedClasses, w |-> w]

ruleMatchedClass(w) ==
    IF w._matchedClasses = Null
    THEN LET c == OrElse(getAttribute(w, "rule-matched-class"),
                         "validation-matched")
         IN [ret |-> c, w |-> [w EXCEPT !._matchedClasses = c]]
    ELSE [ret |-> w._matchedClasses, w |-> w]

validationMessage(w) == getAttribute(w, "validation-message")

----------------------------------------------------------------------------
(* Timers of the host *)

\* the least positive number not in S
Fresh(S) == CHOOSE n \in 1..(Cardinality(S) + 1) :
                n \notin S /\ \A m \in 1..(n - 1) : m \in S

\* a scheduling whose handle is not added to the pending set
setTimeout_untracked(w, element, matched, ms, gen) ==
    LET timeoutId == Fresh({t.id : t \in w.timers} \cup w._pendingTimeouts)
    IN [w EXCEPT
          !.timers = @ \cup {[id |-> timeoutId, element |-> element,
                              matched |-> matched, ms |-> ms, gen |-> gen]}]

\* setTimeout: the handle is new; gen names the evaluation that scheduled
\* the callback, which toggles the classes of element when it fires
setTimeout(w, element, matched, ms, gen) ==
    LET timeoutId == Fresh({t.id : t \in w.timers} \cup w._pendingTimeouts)
    IN [w EXCEPT
          !.timers = @ \cup {[id |-> timeoutId, element |-> element,
                              matched |-> matched, ms |-> ms, gen |-> gen]},
          !._pendingTimeouts = @ \cup {timeoutId}]

clearTimeout(w, timeoutId) ==
    [w EXCEPT !.timers = {t \in @ : t.id # timeoutId}]

\* a clearing that empties the set of handles and cancels no timer
_clearPendingTimeouts_forgets(w) ==
    IF w._pendingTimeouts = {} THEN w
    ELSE [w EXCEPT !._pendingTimeouts = {}]

_clearPendingTimeouts(w) ==
    IF w._pendingTimeouts = {} THEN w
    ELSE [w EXCEPT !.timers = {t \in @ : t.id \notin w._pendingTimeouts},
                   !._pendingTimeouts = {}]

----------------------------------------------------------------------------
(* Evaluation *)

\* a toggle that adds the class of the result and leaves the other one
_toggleMatchedClasses_addOnly(w, element, matched) ==
    IF matched
    THEN LET m == ruleMatchedClass(w)
         IN [m.w EXCEPT !.ruleClasses[element] = @ \cup {m.ret}]
    ELSE LET u == ruleUnmatchedClass(w)
         IN [u.w EXCEPT !.ruleClasses[element] = @ \cup {u.ret}]

_toggleMatchedClasses(w, element, matched) ==
    IF matched
    THEN LET m == ruleMatchedClass(w)
             u == ruleUnmatchedClass(m.w)
         IN [u.w EXCEPT !.ruleClasses[element] = (@ \cup {m.ret}) \ {u.ret}]
    ELSE LET u == ruleUnmatchedClass(w)
             m == ruleMatchedClass(u.w)
         IN [m.w EXCEPT !.ruleClasses[element] = (@ \cup {u.ret}) \ {m.ret}]

\* an evaluation step that leaves the field's custom validity alone
_updateFieldValidity_skipped(w, isValid, matchedRules) == w

_updateFieldValidity(w, isValid, matchedRules) ==
    IF w._field = Null THEN w
    ELSE IF isValid
    THEN [w EXCEPT !.customValidity[w._field] = <<>>]
    ELSE LET template == OrElse(validationMessage(w), DefaultTemplate)
             message == ReplaceFirst(
                            ReplaceFirst(Tokens(template), "{matched}",
                                         ToString(matchedRules)),
                            "{total}", ToString(Len(w._rules)))
         IN [w EXCEPT !.customValidity[w._field] = message]

\* the for loop of _validateField from rule i on
RECURSIVE ValidateRules(_, _, _, _, _, _)
ValidateRules(w, i, value, delay, matchedRules, gen) ==
    IF i >= Len(w._rules) THEN [w |-> w, matchedRules |-> matchedRules]
    ELSE LET rule == w._rules[i + 1]
             matched == RegExpTest(rule.regex, value)
             w2 == IF delay > 0
                   THEN setTimeout(w, rule.element, matched, i * delay, gen)
                   ELSE _toggleMatchedClasses(w, rule.element, matched)
         IN ValidateRules(w2, i + 1, value, delay,
                          IF matched THEN matchedRules + 1 ELSE matchedRules,
                          gen)

\* a field update that adds the class of the result and leaves the other one
UpdateFieldClasses_addOnly(w, isValid) ==
    IF isValid
    THEN LET v == fieldValidClass(w)
         IN [v.w EXCEPT !.fieldClasses[w._field] = @ \cup {v.ret}]
    ELSE LET iv == fieldInvalidClass(w)
         IN [iv.w EXCEPT !.fieldClasses[w._field] = @ \cup {iv.ret}]

\* the field's valid/invalid class pair
UpdateFieldClasses(w, isValid) ==
    LET v == fieldValidClass(w)
        iv == fieldInvalidClass(v.w)
    IN IF isValid
       THEN [iv.w EXCEPT !.fieldClasses[w._field] =
                             (@ \cup {v.ret}) \ {iv.ret}]
       ELSE [iv.w EXCEPT !.fieldClasses[w._field] =
                             (@ \cup {iv.ret}) \ {v.ret}]

\* a dispatch that only reports valid results
DispatchValidated_onlyValid(w, isValid, matchedRules, rulesCount) ==
    IF isValid
    THEN [w EXCEPT !.events = Append(@, [isValid |-> isValid,
                                         matchedRules |-> matchedRules,
                                         totalRules |-> rulesCount,
                                         field |-> w._field,
                                         getter |-> w._isValid,
                                         pending |-> w._pendingTimeouts,
                                         fieldClasses |->
                                             w.fieldClasses[w._field],
                                         message |->
                                             w.customValidity[w._field]])]
    ELSE w

\* dispatchEvent(new CustomEvent('form-validation-list:validated', ...));
\* the listeners of the event run inside the call: getter, pending,
\* fieldClasses and message record what they find (the isValid getter, the
\* pending-timer set, the field's classes and its custom-validity message)
DispatchValidated(w, isValid, matchedRules, rulesCount) ==
    [w EXCEPT !.events = Append(@, [isValid |-> isValid,
                                    matchedRules |-> matchedRules,
                                    totalRules |-> rulesCount,
                                    field |-> w._field,
                                    getter |-> w._isValid,
                                    pending |-> w._pendingTimeouts,
                                    fieldClasses |-> w.fieldClasses[w._field],
                                    message |-> w.customValidity[w._field]])]

\* an evaluation that applies every rule's classes at once, whatever the
\* delay
_validateField_synchronous(w) ==
    IF w._field = Null THEN w
    ELSE LET w1 == _clearPendingTimeouts([w EXCEPT !.evals = @ + 1])
             value == w1.fieldValue[w1._field]
             rulesCount == Len(w1._rules)
             gen == Fresh({t.gen : t \in w1.timers})
             loop == ValidateRules(w1, 0, value, 0, 0, gen)
             matchedRules == loop.matchedRules
             isValid == matchedRules = rulesCount
             w2 == [loop.w EXCEPT !._isValid = isValid]
             w3 == UpdateFieldClasses(w2, isValid)
             w4 == _updateFieldValidity(w3, isValid, matchedRules)
         IN DispatchValidated(w4, isValid, matchedRules, rulesCount)

\* evals counts the evaluations that run with a field
_validateField(w) ==
    IF w._field = Null THEN w
    ELSE LET w1 == _clearPendingTimeouts([w EXCEPT !.evals = @ + 1])
             value == w1.fieldValue[w1._field]
             rulesCount == Len(w1._rules)
             delay == eachDelay(w1)
             gen == Fresh({t.gen : t \in w1.timers})
             loop == ValidateRules(w1, 0, value, delay, 0, gen)
             matchedRules == loop.matchedRules
             isValid == matchedRules = rulesCount
             w2 == [loop.w EXCEPT !._isValid = isValid]
             w3 == UpdateFieldClasses(w2, isValid)
             w4 == _updateFieldValidity(w3, isValid, matchedRules)
         IN DispatchValidated(w4, isValid, matchedRules, rulesCount)

\* validate() that reads the validity before it evaluates
validate_stale(w) ==
    LET w1 == _validateField(w)
    IN [ret |-> w._isValid, w |-> w1]

validate(w) ==
    LET w1 == _validateField(w)
    IN [ret |-> w1._isValid, w |-> w1]

\* the isValid getter
isValid(w) == w._isValid

----------------------------------------------------------------------------
(* Lifecycle *)

\* an injection that does not consult the class's flag
injectStyles_perInstance(w) ==
    [w EXCEPT !.headStyles = @ + 1, !.stylesInjected = TRUE]

\* #stylesInjected is static: one flag for every instance of the class
injectStyles(w) ==
    IF w.stylesInjected THEN w
    ELSE [w EXCEPT !.headStyles = @ + 1, !.stylesInjected = TRUE]

\* rnd is the id #generateId would return
_setupAccessibility(w, rnd) ==
    IF w._field = Null THEN w
    ELSE LET listId == IF w.id # "" THEN w.id ELSE rnd
             w1 == IF w.id = "" THEN [w EXCEPT !.id = listId] ELSE w
             existingDescribedBy == w1.describedBy[w1._field]
         IN IF existingDescribedBy # <<>>
            THEN IF \E i \in 1..Len(existingDescribedBy) :
                        existingDescribedBy[i] = listId
                 THEN w1
                 ELSE [w1 EXCEPT !.describedBy[w1._field] =
                                     Append(existingDescribedBy, listId)]
            ELSE [w1 EXCEPT !.describedBy[w1._field] = <<listId>>]

\* a scan that takes the pattern each element was created with
querySelectorAll_createdPatterns(w) ==
    [i \in 1..Len(w.domRules) |->
        [element |-> w.domRules[i],
         pattern |-> PatternOf(w.domRules[i]),
         regex |-> PatternOf(w.domRules[i])]]

\* the descendants carrying data-pattern, in document order, each with the
\* text of its data-pattern and the regex compiled from it
querySelectorAll(w) ==
    [i \in 1..Len(w.domRules) |->
        [element |-> w.domRules[i],
         pattern |-> w.dataPattern[w.domRules[i]],
         regex |-> w.dataPattern[w.domRules[i]]]]

\* a registration that the field drops
addEventListener_dropped(w, field, type, handler) == w

\* a listener already registered for the type is not registered again; a new
\* one goes to the end of the target's listener list
addEventListener(w, field, type, handler) ==
    LET l == [field |-> field, type |-> type, handler |-> handler]
    IN IF l \in w.listeners THEN w
       ELSE [w EXCEPT !.listeners = @ \cup {l},
                      !.listenerOrder = Append(@, l)]

\* a removal that the field ignores
removeEventListener_ignored(w, field, type, handler) == w

removeEventListener(w, field, type, handler) ==
    LET l == [field |-> field, type |-> type, handler |-> handler]
    IN [w EXCEPT !.listeners = @ \ {l},
                 !.listenerOrder = SelectSeq(@, LAMBDA x : x # l)]

\* a setup that evaluates whatever the field holds
_setupValidation_alwaysEvaluates(w, rnd) ==
    LET w0 == _clearPendingTimeouts(w)
        fid == fieldId(w0)
    IN IF ~Truthy(fid) THEN w0
       ELSE LET w1 == [w0 EXCEPT !._field = getElementById(fid)]
       IN IF w1._field = Null THEN w1
       ELSE LET w2 == [w1 EXCEPT !._isValid = FALSE,
                                 !._rules = querySelectorAll(w1)]
       IN IF Len(w2._rules) = 0 THEN w2
       ELSE LET w3 == _setupAccessibility(w2, rnd)
                w4 == [w3 EXCEPT
                         !.ruleRole = [el \in DOMAIN @ |->
                             IF \E i \in 1..Len(w3._rules) :
                                    w3._rules[i].element = el
                             THEN "listitem" ELSE @[el]],
                         !.ruleLive = [el \in DOMAIN @ |->
                             IF \E i \in 1..Len(w3._rules) :
                                    w3._rules[i].element = el
                             THEN "polite" ELSE @[el]]]
                w5 == IF w4._validationHandler = NoHandler
                      THEN [w4 EXCEPT !._validationHandler =
                               Fresh({l.handler : l \in w4.listeners})]
                      ELSE w4
                w6 == [w5 EXCEPT !._currentTriggerEvent = triggerEvent(w5)]
                w7 == addEventListener(w6, w6._field, w6._currentTriggerEvent,
                                       w6._validationHandler)
            IN _validateField(w7)

_setupValidation(w, rnd) ==
    LET w0 == _clearPendingTimeouts(w)
        fid == fieldId(w0)
    IN IF ~Truthy(fid) THEN w0
       ELSE LET w1 == [w0 EXCEPT !._field = getElementById(fid)]
       IN IF w1._field = Null THEN w1
       ELSE LET w2 == [w1 EXCEPT !._isValid = FALSE,
                                 !._rules = querySelectorAll(w1)]
       IN IF Len(w2._rules) = 0 THEN w2
       ELSE LET w3 == _setupAccessibility(w2, rnd)
                w4 == [w3 EXCEPT
                         !.ruleRole = [el \in DOMAIN @ |->
                             IF \E i \in 1..Len(w3._rules) :
                                    w3._rules[i].element = el
                             THEN "listitem" ELSE @[el]],
                         !.ruleLive = [el \in DOMAIN @ |->
                             IF \E i \in 1..Len(w3._rules) :
                                    w3._rules[i].element = el
                             THEN "polite" ELSE @[el]]]
                w5 == IF w4._validationHandler = NoHandler
                      THEN [w4 EXCEPT !._validationHandler =
                               Fresh({l.handler : l \in w4.listeners})]
                      ELSE w4
                w6 == [w5 EXCEPT !._currentTriggerEvent = triggerEvent(w5)]
                w7 == addEventListener(w6, w6._field, w6._currentTriggerEvent,
                                       w6._validationHandler)
            IN IF w7.fieldValue[w7._field] # <<>>
               THEN _validateField(w7)
               ELSE w7

\* a release that resets the recorded trigger event to the configured one
ReleaseReferences_keepsEvent(w) ==
    [w EXCEPT !._field = Null,
              !._rules = <<>>,
              !._validationHandler = NoHandler,
              !._validClasses = Null,
              !._invalidClasses = Null,
              !._matchedClasses = Null,
              !._unmatchedClasses = Null,
              !._currentTriggerEvent = triggerEvent(w),
              !._isValid = FALSE]

\* the assignments that end _cleanup
ReleaseReferences(w) ==
    [w EXCEPT !._field = Null,
              !._rules = <<>>,
              !._validationHandler = NoHandler,
              !._validClasses = Null,
              !._invalidClasses = Null,
              !._matchedClasses = Null,
              !._unmatchedClasses = Null,
              !._currentTriggerEvent = Null,
              !._isValid = FALSE]

\* a teardown that also clears the description links of the field
_cleanup_unlinks(w) ==
    LET w0 == _clearPendingTimeouts(w)
        w1 == IF w0._field # Null /\ w0._validationHandler # NoHandler
              THEN removeEventListener(w0, w0._field,
                       OrElse(w0._currentTriggerEvent, triggerEvent(w0)),
                       w0._validationHandler)
              ELSE w0
        w2 == IF w1._field # Null
              THEN [w1 EXCEPT !.customValidity[w1._field] = <<>>,
                              !.describedBy[w1._field] = <<>>]
              ELSE w1
        v == fieldValidClass(w2)
        iv == fieldInvalidClass(v.w)
        w3 == IF w2._field # Null
              THEN [iv.w EXCEPT !.fieldClasses[w2._field] =
                                    @ \ {v.ret, iv.ret}]
              ELSE w2
        m == ruleMatchedClass(w3)
        u == ruleUnmatchedClass(m.w)
        w4 == [u.w EXCEPT !.ruleClasses = [el \in DOMAIN @ |->
                  IF \E i \in 1..Len(w3._rules) : w3._rules[i].element = el
                  THEN @[el] \ {m.ret, u.ret} ELSE @[el]]]
    IN ReleaseReferences(w4)

_cleanup(w) ==
    LET w0 == _clearPendingTimeouts(w)
        w1 == IF w0._field # Null /\ w0._validationHandler # NoHandler
              THEN removeEventListener(w0, w0._field,
                       OrElse(w0._currentTriggerEvent, triggerEvent(w0)),
                       w0._validationHandler)
              ELSE w0
        w2 == IF w1._field # Null
              THEN [w1 EXCEPT !.customValidity[w1._field] = <<>>]
              ELSE w1
        v == fieldValidClass(w2)
        iv == fieldInvalidClass(v.w)
        w3 == IF w2._field # Null
              THEN [iv.w EXCEPT !.fieldClasses[w2._field] =
                                    @ \ {v.ret, iv.ret}]
              ELSE w2
        m == ruleMatchedClass(w3)
        u == ruleUnmatchedClass(m.w)
        w4 == [u.w EXCEPT !.ruleClasses = [el \in DOMAIN @ |->
                  IF \E i \in 1..Len(w3._rules) : w3._rules[i].element = el
                  THEN @[el] \ {m.ret, u.ret} ELSE @[el]]]
    IN ReleaseReferences(w4)

\* a field class change that keeps the cached name
__handleFieldClassChange_keepsCache(w, oldValue, defaultClass, cacheKey) ==
    LET previousClass == IF oldValue = Null THEN defaultClass
                         ELSE OrElse(oldValue, Null)
        w2 == IF w._field # Null /\ previousClass # Null
              THEN [w EXCEPT !.fieldClasses[w._field] = @ \ {previousClass}]
              ELSE w
    IN IF w2._field # Null THEN _validateField(w2) ELSE w2

__handleFieldClassChange(w, oldValue, defaultClass, cacheKey) ==
    LET previousClass == IF oldValue = Null THEN defaultClass
                         ELSE OrElse(oldValue, Null)
        w1 == [w EXCEPT ![cacheKey] = Null]
        w2 == IF w1._field # Null /\ previousClass # Null
              THEN [w1 EXCEPT !.fieldClasses[w1._field] = @ \ {previousClass}]
              ELSE w1
    IN IF w2._field # Null THEN _validateField(w2) ELSE w2

__handleRuleClassChange(w, oldValue, defaultClass, cacheKey) ==
    LET previousClass == IF oldValue = Null THEN defaultClass
                         ELSE OrElse(oldValue, Null)
        w1 == [w EXCEPT ![cacheKey] = Null]
        w2 == IF previousClass # Null
              THEN [w1 EXCEPT !.ruleClasses = [el \in DOMAIN @ |->
                      IF \E i \in 1..Len(w1._rules) :
                             w1._rules[i].element = el
                      THEN @[el] \ {previousClass} ELSE @[el]]]
              ELSE w1
    IN IF w2._field # Null THEN _validateField(w2) ELSE w2

\* a rebinding that attaches the new listener and leaves the old one
__rebindValidationHandler_noRemove(w, oldValue) ==
    IF w._field = Null \/ w._validationHandler = NoHandler THEN w
    ELSE LET previousEvent == OrElse(w._currentTriggerEvent,
                                     OrElse(oldValue, "input"))
             nextEvent == triggerEvent(w)
         IN IF previousEvent = nextEvent THEN w
            ELSE LET w2 == [w EXCEPT !._currentTriggerEvent = nextEvent]
                 IN addEventListener(w2, w2._field, nextEvent,
                                     w2._validationHandler)

__rebindValidationHandler(w, oldValue) ==
    IF w._field = Null \/ w._validationHandler = NoHandler THEN w
    ELSE LET previousEvent == OrElse(w._currentTriggerEvent,
                                     OrElse(oldValue, "input"))
             nextEvent == triggerEvent(w)
         IN IF previousEvent = nextEvent THEN w
            ELSE LET w1 == removeEventListener(w, w._field, previousEvent,
                                               w._validationHandler)
                     w2 == [w1 EXCEPT !._currentTriggerEvent = nextEvent]
                 IN addEventListener(w2, w2._field, nextEvent,
                                     w2._validationHandler)

\* a callback whose association case sets up again without a teardown
attributeChangedCallback_noCleanup(w, name, oldValue, newValue, rnd) ==
    IF oldValue = newValue THEN w
    ELSE CASE name = "for" ->
                IF w.isConnected THEN _setupValidation(w, rnd)
                ELSE w
           [] name = "validation-message" ->
                IF w._field # Null THEN _validateField(w) ELSE w
           [] name = "trigger-event" -> __rebindValidationHandler(w, oldValue)
           [] name = "each-delay" ->
                LET w1 == _clearPendingTimeouts(w)
                IN IF w1._field # Null THEN _validateField(w1) ELSE w1
           [] name = "field-invalid-class" ->
                __handleFieldClassChange(w, oldValue, "validation-invalid",
                                         "_invalidClasses")
           [] name = "field-valid-class" ->
                __handleFieldClassChange(w, oldValue, "validation-valid",
                                         "_validClasses")
           [] name = "rule-unmatched-class" ->
                __handleRuleClassChange(w, oldValue, "validation-unmatched",
                                        "_unmatchedClasses")
           [] name = "rule-matched-class" ->
                __handleRuleClassChange(w, oldValue, "validation-matched",
                                        "_matchedClasses")
           [] OTHER -> w

\* w already holds the new attribute value
attributeChangedCallback(w, name, oldValue, newValue, rnd) ==
    IF oldValue = newValue THEN w
    ELSE CASE name = "for" ->
                IF w.isConnected THEN _setupValidation(_cleanup(w), rnd)
                ELSE w
           [] name = "validation-message" ->
                IF w._field # Null THEN _validateField(w) ELSE w
           [] name = "trigger-event" -> __rebindValidationHandler(w, oldValue)
           [] name = "each-delay" ->
                LET w1 == _clearPendingTimeouts(w)
                IN IF w1._field # Null THEN _validateField(w1) ELSE w1
           [] name = "field-invalid-class" ->
                __handleFieldClassChange(w, oldValue, "validation-invalid",
                                         "_invalidClasses")
           [] name = "field-valid-class" ->
                __handleFieldClassChange(w, oldValue, "validation-valid",
                                         "_validClasses")
           [] name = "rule-unmatched-class" ->
                __handleRuleClassChange(w, oldValue, "validation-unmatched",
                                        "_unmatchedClasses")
           [] name = "rule-matched-class" ->
                __handleRuleClassChange(w, oldValue, "validation-matched",
                                        "_matchedClasses")
           [] OTHER -> w

\* an attribute write that the widget is not told of
setAttribute_unobserved(w, name, value, rnd) ==
    [w EXCEPT !.attrs[name] = value]

\* Element.setAttribute / removeAttribute (value Null) on the widget
setAttribute(w, name, value, rnd) ==
    attributeChangedCallback([w EXCEPT !.attrs[name] = value], name,
                             w.attrs[name], value, rnd)

----------------------------------------------------------------------------
(* Configuration setters: each computes the attribute value it writes, Null *)
(* when it removes the attribute                                           *)

fieldId_set(value) ==
    IF value = JsNull \/ value = JsUndefined \/ value = JsString("")
    THEN Null
    ELSE String(value)

triggerEvent_set(value) ==
    LET normalized == IF value = JsNull \/ value = JsUndefined THEN ""
                      ELSE trim(String(value))
    IN IF Truthy(normalized) THEN normalized ELSE Null

eachDelay_set(value) ==
    LET parsed == ToNumber(value)
    IN IF parsed.finite /\ parsed.n >= 0 THEN NumberToString(parsed.n)
       ELSE Null

\* the four class-name setters share one body
className_set(value) ==
    LET normalized == IF value = JsNull \/ value = JsUndefined THEN ""
                      ELSE trim(String(value))
    IN IF Truthy(normalized) THEN normalized ELSE Null

validationMessage_set(value) ==
    LET normalized == IF value = JsNull \/ value = JsUndefined THEN ""
                      ELSE String(value)
    IN IF Truthy(normalized) THEN normalized ELSE Null

\* the attribute a property reflects
PropertyAttribute(prop) ==
    CASE prop = "for" -> "for"
      [] prop = "fieldId" -> "for"
      [] prop = "triggerEvent" -> "trigger-event"
      [] prop = "eachDelay" -> "each-delay"
      [] prop = "fieldInvalidClass" -> "field-invalid-class"
      [] prop = "fieldValidClass" -> "field-valid-class"
      [] prop = "ruleUnmatchedClass" -> "rule-unmatched-class"
      [] prop = "ruleMatchedClass" -> "rule-matched-class"
      [] prop = "validationMessage" -> "validation-message"

\* the attribute value the setter of a property writes
SetterValue(prop, value) ==
    CASE prop \in {"for", "fieldId"} -> fieldId_set(value)
      [] prop = "triggerEvent" -> triggerEvent_set(value)
      [] prop = "eachDelay" -> eachDelay_set(value)
      [] prop = "validationMessage" -> validationMessage_set(value)
      [] OTHER -> className_set(value)

\* an upgrade that deletes the own property and does not assign it again
__upgradeProperty_deletesOnly(w, prop, rnd) ==
    IF w.ownProps[prop] = NoProperty THEN w
    ELSE [w EXCEPT !.ownProps[prop] = NoProperty]

\* an own property shadows the accessor: it is deleted and its value is
\* assigned again, which runs the setter
__upgradeProperty(w, prop, rnd) ==
    IF w.ownProps[prop] = NoProperty THEN w
    ELSE LET value == w.ownProps[prop]
         IN setAttribute([w EXCEPT !.ownProps[prop] = NoProperty],
                         PropertyAttribute(prop), SetterValue(prop, value),
                         rnd)

\* a connectedCallback that marks the root only when setup found a field
connectedCallback_roleAfterSetup(w, rnd) ==
    LET w2 == injectStyles(w)
        w3 == _setupValidation(w2, rnd)
    IN IF w3._field = Null THEN w3 ELSE [w3 EXCEPT !.role = "list"]

\* connectedCallback after its __upgradeProperty calls, which change
\* nothing when the element has no own property (an element created by the
\* registered class never has one); UpgradeAndConnect runs them
connectedCallback(w, rnd) ==
    LET w1 == [w EXCEPT !.role = "list"]
        w2 == injectStyles(w1)
    IN _setupValidation(w2, rnd)

disconnectedCallback(w) == _cleanup(w)

\* a callback that forgets its handle and applies nothing
TimeoutCallback_dropsUpdate(w, t) ==
    [w EXCEPT !._pendingTimeouts = @ \ {t.id}]

\* the callback of a staggered update
TimeoutCallback(w, t) ==
    LET w1 == [w EXCEPT !._pendingTimeouts = @ \ {t.id}]
    IN _toggleMatchedClasses(w1, t.element, t.matched)

\* what belongs to one instance of the widget: its attributes and private
\* fields, and its descendants; the rest of the world is the page's
WidgetOf(w) ==
    [
     attrs |-> w.attrs, id |-> w.id, role |-> w.role,
     isConnected |-> w.isConnected, _field |-> w._field, _rules |-> w._rules,
     _validationHandler |-> w._validationHandler, _isValid |-> w._isValid,
     _validClasses |-> w._validClasses,
     _invalidClasses |-> w._invalidClasses,
     _matchedClasses |-> w._matchedClasses,
     _unmatchedClasses |-> w._unmatchedClasses,
     _pendingTimeouts |-> w._pendingTimeouts,
     _currentTriggerEvent |-> w._currentTriggerEvent,
     domRules |-> w.domRules, dataPattern |-> w.dataPattern,
     ruleClasses |-> w.ruleClasses, ruleRole |-> w.ruleRole,
     ruleLive |-> w.ruleLive, upgraded |-> w.upgraded,
     ownProps |-> w.ownProps]

\* the world seen from the second instance of the page: the two instances
\* change places, the page stays
Swap(w) ==
    [w EXCEPT
        !.attrs = w.peer.attrs, !.id = w.peer.id, !.role = w.peer.role,
        !.isConnected = w.peer.isConnected, !._field = w.peer._field,
        !._rules = w.peer._rules,
        !._validationHandler = w.peer._validationHandler,
        !._isValid = w.peer._isValid, !._validClasses = w.peer._validClasses,
        !._invalidClasses = w.peer._invalidClasses,
        !._matchedClasses = w.peer._matchedClasses,
        !._unmatchedClasses = w.peer._unmatchedClasses,
        !._pendingTimeouts = w.peer._pendingTimeouts,
        !._currentTriggerEvent = w.peer._currentTriggerEvent,
        !.domRules = w.peer.domRules, !.dataPattern = w.peer.dataPattern,
        !.ruleClasses = w.peer.ruleClasses, !.ruleRole = w.peer.ruleRole,
        !.ruleLive = w.peer.ruleLive, !.upgraded = w.peer.upgraded,
        !.ownProps = w.peer.ownProps, !.peer = WidgetOf(w)]

\* a handler of the second instance runs in the world seen from it
_validateField_ofPeer(w) == Swap(_validateField(Swap(w)))

\* the handler of a listener is a closure over its instance
RunHandler(w, l) ==
    IF l.handler # NoHandler /\ l.handler = w.peer._validationHandler
    THEN _validateField_ofPeer(w)
    ELSE _validateField(w)

\* dispatchEvent on a field: every listener registered for the type runs, in
\* the order of registration
RECURSIVE RunListeners(_, _)
RunListeners(w, ls) ==
    IF ls = <<>> THEN w
    ELSE RunListeners(RunHandler(w, Head(ls)), Tail(ls))

dispatchEvent(w, field, type) ==
    RunListeners(w, SelectSeq(w.listenerOrder,
                              LAMBDA l : l.field = field /\ l.type = type))

----------------------------------------------------------------------------
(* Registration helper *)

\* ret is the value returned (FALSE when the call threw), reg the registry
\* after the call
defineFormValidationList(reg, tagName) ==
    IF reg.kind # "full"
    THEN [ret |-> FALSE, threw |-> FALSE, reg |-> reg]
    ELSE IF registryGet(reg, tagName) = Null
    THEN LET d == registryDefine(reg, tagName, FormValidationListElement)
         IN [ret |-> ~d.threw, threw |-> d.threw, reg |-> d.reg]
    ELSE [ret |-> TRUE, threw |-> FALSE, reg |-> reg]

----------------------------------------------------------------------------
(* Initial state and actions *)

\* the last operation: its name, the attribute or property it set and
\* whether that changed the attribute's value (or the tag name it defined),
\* the field and type of the event it dispatched, the boolean it returned,
\* whether it threw, the value it assigned to a property, whether
\* staggered updates were in flight when an attribute was set
NoOp == [op |-> "none", name |-> Null, changed |-> FALSE, field |-> Null,
         type |-> Null, ret |-> FALSE, threw |-> FALSE, value |-> JsNull,
         inFlight |-> FALSE]

\* the widget after construction: no attribute, no field, nothing set up;
\* the widget may or may not have an id of its own, f1 has a description
\* link of its own and f2 has none
\* the second instance of the widget in the page, after construction: it
\* has an id of its own and one rule element, which asks for a lower-case
\* letter
PeerId == "rules2"
PeerPattern == "[a-z]+"

InitPeer ==
    [attrs |-> [n \in ObservedAttributes |-> Null], id |-> PeerId,
     role |-> Null, isConnected |-> FALSE, _field |-> Null, _rules |-> <<>>,
     _validationHandler |-> NoHandler, _isValid |-> FALSE,
     _validClasses |-> Null, _invalidClasses |-> Null,
     _matchedClasses |-> Null, _unmatchedClasses |-> Null,
     _pendingTimeouts |-> {}, _currentTriggerEvent |-> Null,
     domRules |-> <<1>>,
     dataPattern |-> [el \in RuleElements |-> PeerPattern],
     ruleClasses |-> [el \in RuleElements |-> {}],
     ruleRole |-> [el \in RuleElements |-> Null],
     ruleLive |-> [el \in RuleElements |-> Null],
     upgraded |-> TRUE,
     ownProps |-> [prop \in {UpgradedProperties[i] :
                                 i \in 1..Len(UpgradedProperties)} |->
                      NoProperty]]

InitWidget ==
    /\ attrs = [n \in ObservedAttributes |-> Null]
    /\ id \in {"", "rules"}
    /\ role = Null
    /\ isConnected = FALSE
    /\ _field = Null
    /\ _rules = <<>>
    /\ _validationHandler = NoHandler
    /\ _isValid = FALSE
    /\ _validClasses = Null
    /\ _invalidClasses = Null
    /\ _matchedClasses = Null
    /\ _unmatchedClasses = Null
    /\ _pendingTimeouts = {}
    /\ _currentTriggerEvent = Null
    /\ stylesInjected = FALSE
    /\ headStyles = 0
    /\ fieldValue = [f \in Fields |-> <<>>]
    /\ fieldClasses = [f \in Fields |-> {}]
    /\ customValidity = [f \in Fields |-> <<>>]
    /\ describedBy = [f \in Fields |->
                        IF f = "f1" THEN <<"existing-id">> ELSE <<>>]
    /\ listeners = {}
    /\ listenerOrder = <<>>
    /\ peer = InitPeer
    /\ \E n \in 0..MaxRules : domRules = [i \in 1..n |-> i]
    /\ dataPattern = [el \in RuleElements |-> PatternOf(el)]
    /\ ruleClasses = [el \in RuleElements |-> {}]
    /\ ruleRole = [el \in RuleElements |-> Null]
    /\ ruleLive = [el \in RuleElements |-> Null]
    /\ timers = {}
    /\ events = <<>>
    /\ evals = 0
    /\ lastOp = NoOp

\* the element was created by its class (upgraded) or before the class was
\* defined; it has no own property yet
InitElement(u) ==
    /\ upgraded = u
    /\ ownProps = [prop \in {UpgradedProperties[i] :
                                  i \in 1..Len(UpgradedProperties)} |->
                       NoProperty]

\* a registry without any definition
EmptyRegistry(kind) == [kind |-> kind, map |-> [t \in ValidTags |-> Null]]

\* the state after construction, in a page that has loaded the module: the
\* widget's class is defined under the default name
Init ==
    /\ InitWidget
    /\ InitElement(TRUE)
    /\ registry = [EmptyRegistry("full") EXCEPT
                      !.map[DefaultTag] = FormValidationListElement]

\* the state before the module is loaded: there is no registry, one without
\* a define function, or one in which nothing is defined yet
InitRegistry ==
    /\ InitWidget
    /\ InitElement(FALSE)
    /\ \E kind \in {"absent", "noDefine", "full"} :
          registry = EmptyRegistry(kind)

\* the page defines a class of its own under a name
PageDefine(tagName) ==
    /\ registry.kind = "full"
    /\ registry.map[tagName] = Null
    /\ Commit([World EXCEPT !.registry.map[tagName] = OtherElement])
    /\ lastOp' = [NoOp EXCEPT !.op = "pageDefine", !.name = tagName]

\* defineFormValidationList(tagName), at module load with the default name
\* or called by the page
DefineFormValidationList(tagName) ==
    /\ LET r == defineFormValidationList(registry, tagName)
       IN /\ Commit([World EXCEPT !.registry = r.reg])
          /\ lastOp' = [NoOp EXCEPT !.op = "define", !.name = tagName,
                                    !.ret = r.ret, !.threw = r.threw]

\* the page writes the aria-describedby of a field before the widget is
\* attached
SetDescribedBy(f, list) ==
    /\ ~isConnected
    /\ describedBy[f] # list
    /\ Commit([World EXCEPT !.describedBy[f] = list])
    /\ lastOp' = [NoOp EXCEPT !.op = "setDescribedBy", !.field = f]

\* the widget is inserted into the document
Attach ==
    /\ ~isConnected
    /\ upgraded
    /\ \E rnd \in GeneratedIds :
           Commit(connectedCallback([World EXCEPT !.isConnected = TRUE], rnd))
    /\ lastOp' = [NoOp EXCEPT !.op = "attach"]

\* the page assigns to a property of an element that is not upgraded: the
\* value becomes an own property and no setter runs
AssignOwnProperty(prop, value) ==
    /\ ~upgraded
    /\ ownProps[prop] # value
    /\ Commit([World EXCEPT !.ownProps[prop] = value])
    /\ lastOp' = [NoOp EXCEPT !.op = "assignOwn", !.name = prop,
                              !.value = value]

\* the __upgradeProperty calls of connectedCallback from the i-th on
RECURSIVE UpgradeProperties(_, _, _)
UpgradeProperties(w, i, rnd) ==
    IF i > Len(UpgradedProperties) THEN w
    ELSE UpgradeProperties(__upgradeProperty(w, UpgradedProperties[i], rnd),
                           i + 1, rnd)

\* connectedCallback on w0: its __upgradeProperty calls, then the rest
UpgradeAndConnect(w0, rnd) ==
    \E w1 \in {UpgradeProperties(w0, 1, rnd)} :
        Commit(connectedCallback(w1, rnd))

\* an element created before the class was defined is inserted into the
\* document once the class is defined: it is upgraded (its constructor
\* runs) and connected
UpgradeAttach ==
    /\ ~isConnected
    /\ ~upgraded
    /\ registryGet(registry, DefaultTag) = FormValidationListElement
    /\ \E rnd \in GeneratedIds :
          UpgradeAndConnect([World EXCEPT !.isConnected = TRUE,
                                          !.upgraded = TRUE], rnd)
    /\ lastOp' = [NoOp EXCEPT !.op = "upgradeAttach"]

\* the widget is removed from the document
Detach ==
    /\ isConnected
    /\ Commit(disconnectedCallback([World EXCEPT !.isConnected = FALSE]))
    /\ lastOp' = [NoOp EXCEPT !.op = "detach"]

\* disconnectedCallback() called directly, as the tests do
CallDisconnected ==
    /\ Commit(disconnectedCallback(World))
    /\ lastOp' = [NoOp EXCEPT !.op = "disconnectedCallback"]

\* connectedCallback() called directly on an attached widget after a direct
\* disconnectedCallback(), as the tests do
CallConnected ==
    /\ isConnected
    /\ _field = Null
    /\ \E rnd \in GeneratedIds : Commit(connectedCallback(World, rnd))
    /\ lastOp' = [NoOp EXCEPT !.op = "connectedCallback"]

\* setAttribute(name, value), or removeAttribute(name) when value is Null
SetAttribute(name, value) ==
    /\ \E rnd \in GeneratedIds : Commit(setAttribute(World, name, value, rnd))
    /\ lastOp' = [NoOp EXCEPT !.op = "setAttribute", !.name = name,
                              !.changed = (attrs[name] # value),
                              !.inFlight = (timers # {})]

\* the page assigns a value to a configuration property
SetProperty(prop, value) ==
    /\ \E rnd \in GeneratedIds :
          Commit(setAttribute(World, PropertyAttribute(prop),
                              SetterValue(prop, value), rnd))
    /\ lastOp' = [NoOp EXCEPT !.op = "setProperty", !.name = prop,
                              !.value = value,
                              !.changed = (attrs[PropertyAttribute(prop)]
                                           # SetterValue(prop, value))]

\* a read of isValid that evaluates the field first, as validate() does
ReadIsValid_evaluates ==
    /\ LET r == validate(World)
       IN /\ Commit(r.w)
          /\ lastOp' = [NoOp EXCEPT !.op = "isValid", !.ret = r.ret]

\* the page reads the isValid property
ReadIsValid ==
    /\ Commit(World)
    /\ lastOp' = [NoOp EXCEPT !.op = "isValid", !.ret = isValid(World)]

\* the field's value changes (typing or assignment); no event yet
SetValue(f, v) ==
    /\ fieldValue[f] # v
    /\ Commit([World EXCEPT !.fieldValue[f] = v])
    /\ lastOp' = [NoOp EXCEPT !.op = "setValue", !.field = f]

\* the page adds or removes descendants that carry data-pattern (or the
\* attribute itself): list is what a scan now finds, in document order
SetDomRules(list) ==
    /\ domRules # list
    /\ Commit([World EXCEPT !.domRules = list])
    /\ lastOp' = [NoOp EXCEPT !.op = "setDomRules"]

\* the page rewrites the data-pattern of a rule element
SetDataPattern(el, pattern) ==
    /\ dataPattern[el] # pattern
    /\ Commit([World EXCEPT !.dataPattern[el] = pattern])
    /\ lastOp' = [NoOp EXCEPT !.op = "setDataPattern"]

\* a dispatch in which the update due after 0 ms runs before the listener
\* returns
Dispatch_appliesFirstRule(f, type) ==
    /\ LET w1 == dispatchEvent(World, f, type)
       IN IF \E t \in w1.timers : t.ms = 0
          THEN LET t == CHOOSE t \in w1.timers : t.ms = 0
               IN Commit(TimeoutCallback([w1 EXCEPT !.timers = @ \ {t}], t))
          ELSE Commit(w1)
    /\ lastOp' = [NoOp EXCEPT !.op = "dispatch", !.field = f, !.type = type]

\* an event of the given type is dispatched on a field
Dispatch(f, type) ==
    /\ Commit(dispatchEvent(World, f, type))
    /\ lastOp' = [NoOp EXCEPT !.op = "dispatch", !.field = f, !.type = type]

Validate ==
    /\ LET r == validate(World)
       IN /\ Commit(r.w)
          /\ lastOp' = [NoOp EXCEPT !.op = "validate", !.ret = r.ret]

\* the host runs a pending timer that is due: of the timers one evaluation
\* scheduled, the one with the least delay
TimerFire ==
    /\ \E t \in timers :
          /\ \A o \in timers : o.gen = t.gen => o.ms >= t.ms
          /\ Commit(TimeoutCallback([World EXCEPT !.timers = @ \ {t}], t))
    /\ lastOp' = [NoOp EXCEPT !.op = "timer"]

\* The second instance.  Its staggered updates are not modelled (a timer
\* does not say whose it is), so it is inserted with an each-delay of 0, and
\* the page writes its attributes before it inserts it.
PeerSetAttribute(name, value) ==
    /\ ~peer.isConnected
    /\ peer.attrs[name] # value
    /\ \E rnd \in GeneratedIds :
          \E w1 \in {setAttribute(Swap(World), name, value, rnd)} :
             Commit(Swap(w1))
    /\ lastOp' = [NoOp EXCEPT !.op = "peerSetAttribute", !.name = name]

\* the second instance is inserted into the document
PeerAttach ==
    /\ ~peer.isConnected
    /\ peer.attrs["each-delay"] = "0"
    /\ \E rnd \in GeneratedIds :
          \E w0 \in {[Swap(World) EXCEPT !.isConnected = TRUE]} :
             \E w1 \in {connectedCallback(w0, rnd)} : Commit(Swap(w1))
    /\ lastOp' = [NoOp EXCEPT !.op = "peerAttach"]

\* the second instance is removed from the document
PeerDetach ==
    /\ peer.isConnected
    /\ \E w0 \in {[Swap(World) EXCEPT !.isConnected = FALSE]} :
          \E w1 \in {disconnectedCallback(w0)} : Commit(Swap(w1))
    /\ lastOp' = [NoOp EXCEPT !.op = "peerDetach"]

----------------------------------------------------------------------------
(* Specifications.  All of them run the same handlers; they differ in the  *)
(* attributes the page changes and in the values it gives them.            *)

\* Spec: association, trigger event, stagger delay and message template
SpecAttrs == {"for", "trigger-event", "each-delay", "validation-message"}
SpecValues(name) ==
    CASE name = "for" -> {Null, "f1", MissingId}
      [] name = "trigger-event" -> {Null, "change"}
      [] name = "each-delay" -> {Null, "0"}
      [] name = "validation-message" ->
           {Null, "", "{total}{matched}{matched}{total}"}

Next ==
    \/ Attach
    \/ Detach
    \/ CallDisconnected
    \/ CallConnected
    \/ \E name \in SpecAttrs :
          \E value \in SpecValues(name) : SetAttribute(name, value)
    \/ \E v \in Values : SetValue("f1", v)
    \/ \E f \in Fields : \E type \in EventTypes : Dispatch(f, type)
    \/ Validate
    \/ TimerFire

Spec == Init /\ [][Next]_vars

\* SpecFieldClasses: the two field class names, which may be absent, empty,
\* custom, and equal to each other
FieldClassesAttrs == {"for", "each-delay"} \cup FieldClassAttrs
FieldClassesValues(name) ==
    CASE name = "for" -> {"f1", MissingId}
      [] name = "each-delay" -> {Null, "0"}
      [] OTHER -> {Null, "", "c1", "c2"}

InitPlain == Init /\ id = ""

NextFieldClasses ==
    \/ Attach
    \/ Detach
    \/ CallDisconnected
    \/ CallConnected
    \/ \E name \in FieldClassesAttrs :
          \E value \in FieldClassesValues(name) : SetAttribute(name, value)
    \/ \E v \in Values : SetValue("f1", v)
    \/ Dispatch("f1", "input")
    \/ Validate
    \/ TimerFire

SpecFieldClasses == InitPlain /\ [][NextFieldClasses]_vars

\* SpecRuleClasses: the two rule class names, likewise; the stagger delay
\* starts at its default and the page sets it to 0
RuleClassesAttrs == {"for", "each-delay"} \cup RuleClassAttrs
RuleClassesValues(name) ==
    CASE name = "for" -> {"f1"}
      [] name = "each-delay" -> {"0"}
      [] OTHER -> {Null, "", "c1", "c2"}

RuleClassesFieldValues == {<<"a">>, <<"A", "a">>}

NextRuleClasses ==
    \/ Attach
    \/ Detach
    \/ \E name \in RuleClassesAttrs :
          \E value \in RuleClassesValues(name) : SetAttribute(name, value)
    \/ \E v \in RuleClassesFieldValues : SetValue("f1", v)
    \/ Dispatch("f1", "input")
    \/ Validate
    \/ TimerFire

SpecRuleClasses == InitPlain /\ [][NextRuleClasses]_vars

\* SpecLifecycle: re-association between two fields and rebinding of the
\* trigger event
LifecycleAttrs == {"for", "trigger-event", "each-delay"}
LifecycleValues(name) ==
    CASE name = "for" -> {Null, "f1", "f2", MissingId}
      [] name = "trigger-event" -> {Null, "", "input", "change"}
      [] name = "each-delay" -> {Null, "0"}

LifecycleFieldValues == {<<>>, <<"A", "a">>}

NextLifecycle ==
    \/ Attach
    \/ Detach
    \/ CallDisconnected
    \/ CallConnected
    \/ \E name \in LifecycleAttrs :
          \E value \in LifecycleValues(name) : SetAttribute(name, value)
    \/ \E f \in Fields : \E v \in LifecycleFieldValues : SetValue(f, v)
    \/ \E f \in Fields : \E type \in EventTypes : Dispatch(f, type)
    \/ Validate
    \/ TimerFire

SpecLifecycle == InitPlain /\ [][NextLifecycle]_vars

\* SpecDescribedBy: the description links of f1, written by the page before
\* the widget attaches; the widget moves between f1, f2 and no field
DescribedByAttrs == {"for", "each-delay"}
DescribedByValues(name) ==
    CASE name = "for" -> {Null, "f1", "f2", MissingId}
      [] name = "each-delay" -> {"0"}

DescribedByFieldValues == {<<"a">>}

NextDescribedBy ==
    \/ \E list \in DescribedByLists : SetDescribedBy("f1", list)
    \/ Attach
    \/ Detach
    \/ CallDisconnected
    \/ CallConnected
    \/ \E name \in DescribedByAttrs :
          \E value \in DescribedByValues(name) : SetAttribute(name, value)
    \/ \E v \in DescribedByFieldValues : SetValue("f1", v)
    \/ Dispatch("f1", "input")
    \/ Validate
    \/ TimerFire

SpecDescribedBy == Init /\ [][NextDescribedBy]_vars

\* SpecDelay: the stagger delay, given as any kind of attribute value, and
\* the cascades it produces
DelayAttrs == {"for", "each-delay"}
DelayValues(name) ==
    CASE name = "for" -> {Null, "f1"}
      [] name = "each-delay" -> {Null, "", "abc", "-5", "0", "200", "1.5"}

DelayFieldValues == {<<"a">>, <<"A", "a">>}

NextDelay ==
    \/ Attach
    \/ Detach
    \/ \E name \in DelayAttrs :
          \E value \in DelayValues(name) : SetAttribute(name, value)
    \/ \E v \in DelayFieldValues : SetValue("f1", v)
    \/ Dispatch("f1", "input")
    \/ Validate
    \/ TimerFire

SpecDelay == InitPlain /\ [][NextDelay]_vars

\* SpecUpgrade: an element created before the module is loaded; the page
\* assigns its properties, loads the module and inserts the element
UpgradeValues(prop) ==
    CASE prop = "for" -> {JsString("f2")}
      [] prop = "fieldId" -> {JsString("f1"), JsString("f2")}
      [] prop = "triggerEvent" -> {JsString("change"), JsString("input")}
      [] prop = "eachDelay" -> {JsNumber(0)}
      [] prop = "fieldInvalidClass" -> {JsString("c1")}
      [] prop = "validationMessage" -> {JsString("fix it")}
      [] OTHER -> {}

UpgradeFieldValues == {<<"a">>, <<"A", "a">>}

InitUpgrade == InitRegistry /\ registry.kind = "full" /\ id = ""

NextUpgrade ==
    \/ \E i \in 1..Len(UpgradedProperties) :
          \E value \in UpgradeValues(UpgradedProperties[i]) :
             AssignOwnProperty(UpgradedProperties[i], value)
    \/ DefineFormValidationList(DefaultTag)
    \/ UpgradeAttach
    \/ Attach
    \/ Detach
    \/ \E f \in Fields : \E v \in UpgradeFieldValues : SetValue(f, v)
    \/ \E f \in Fields : \E type \in EventTypes : Dispatch(f, type)
    \/ TimerFire

SpecUpgrade == InitUpgrade /\ [][NextUpgrade]_vars

\* SpecCascade: as SpecDelay, with a page that lets a cascade finish: while
\* updates are pending it changes the field's value at most, and the host
\* runs every timer that is due
NextCascade ==
    \/ TimerFire
    \/ \E v \in DelayFieldValues : SetValue("f1", v)
    \/ /\ timers = {}
       /\ \/ Attach
          \/ Detach
          \/ \E name \in DelayAttrs :
                \E value \in DelayValues(name) : SetAttribute(name, value)
          \/ Dispatch("f1", "input")
          \/ Validate

SpecCascade == InitPlain /\ [][NextCascade]_vars /\ WF_vars(TimerFire)

\* SpecRules: the page edits the rule elements while the widget lives: it
\* adds and removes them and rewrites their patterns, one of which matches
\* the empty value
RulesAttrs == {"for", "each-delay"}
RulesValues(name) ==
    CASE name = "for" -> {Null, "f1"}
      [] name = "each-delay" -> {"0"}

RulesFieldValues == {<<>>, <<"A", "a">>}

\* the elements of S in document order
InDocumentOrder(S) ==
    [i \in 1..Cardinality(S) |->
        CHOOSE el \in S : Cardinality({o \in S : o < el}) = i - 1]

\* the scans the page brings about: the first n rule elements, or the
\* last one alone
DomRuleLists ==
    {InDocumentOrder(S) : S \in {1..n : n \in 0..MaxRules} \cup {{MaxRules}}}

\* the page rewrites the pattern of the first rule element
RewrittenElements == {1}
DataPatterns(el) == {PatternOf(el), "^[a-z]*$"}

NextRules ==
    \/ Attach
    \/ Detach
    \/ CallDisconnected
    \/ CallConnected
    \/ \E name \in RulesAttrs :
          \E value \in RulesValues(name) : SetAttribute(name, value)
    \/ \E v \in RulesFieldValues : SetValue("f1", v)
    \/ \E list \in DomRuleLists : SetDomRules(list)
    \/ \E el \in RewrittenElements :
          \E pattern \in DataPatterns(el) : SetDataPattern(el, pattern)
    \/ Dispatch("f1", "input")
    \/ Validate
    \/ TimerFire

SpecRules == InitPlain /\ [][NextRules]_vars

\* SpecShared: two instances of the widget in one page, both told to watch
\* the field f1.  The page writes an instance's attributes before it inserts
\* it, and inserts it with an each-delay of 0.
SharedAttrs == {"for", "each-delay"}
SharedValues(name) ==
    CASE name = "for" -> {Null, "f1"}
      [] name = "each-delay" -> {"0"}
SharedFieldValues == {<<>>, <<"a">>, <<"A", "a">>}

\* the page writes an attribute of the first instance before inserting it
MarkupAttribute(name, value) ==
    /\ ~isConnected
    /\ SetAttribute(name, value)

\* the first instance is inserted once its each-delay is 0
AttachConfigured ==
    /\ attrs["each-delay"] = "0"
    /\ Attach

NextShared ==
    \/ \E name \in SharedAttrs :
          \E value \in SharedValues(name) : MarkupAttribute(name, value)
    \/ AttachConfigured
    \/ Detach
    \/ \E name \in SharedAttrs :
          \E value \in SharedValues(name) : PeerSetAttribute(name, value)
    \/ PeerAttach
    \/ PeerDetach
    \/ \E v \in SharedFieldValues : SetValue("f1", v)
    \/ Dispatch("f1", "input")

SpecShared == InitPlain /\ [][NextShared]_vars

\* SpecProperties: the page configures the widget through its properties
\* and reads isValid
PropertyNames == {"for", "fieldId", "triggerEvent", "eachDelay",
                  "fieldInvalidClass", "fieldValidClass",
                  "ruleUnmatchedClass", "ruleMatchedClass"}
PropertyValues(prop) ==
    CASE prop = "for" -> {JsNull, JsString("f1")}
      [] prop = "fieldId" ->
           {JsNull, JsUndefined, JsString(""), JsString("f1")}
      [] prop = "triggerEvent" ->
           {JsNull, JsString("change"), JsString(" change ")}
      [] prop = "eachDelay" ->
           {JsNull, JsUndefined, JsString(""), JsString("abc"),
            JsNumber(0), JsNumber(200), JsNumber(0 - 5)}
      [] prop = "fieldInvalidClass" ->
           {JsNull, JsString(""), JsString("c1"), JsString(" c1 ")}
      [] prop = "fieldValidClass" -> {JsUndefined, JsString("c2")}
      [] prop = "ruleUnmatchedClass" -> {JsUndefined, JsString("  ")}
      [] prop = "ruleMatchedClass" -> {JsUndefined, JsString("c1")}

PropertiesFieldValues == {<<>>, <<"A", "a">>}

NextProperties ==
    \/ Attach
    \/ Detach
    \/ \E prop \in PropertyNames :
          \E value \in PropertyValues(prop) : SetProperty(prop, value)
    \/ ReadIsValid
    \/ \E v \in PropertiesFieldValues : SetValue("f1", v)
    \/ Dispatch("f1", "input")
    \/ Validate
    \/ TimerFire

SpecProperties == InitPlain /\ [][NextProperties]_vars

\* SpecRegistry: the registration helper and the page's own definitions
NextRegistry ==
    \/ \E tagName \in ValidTags : PageDefine(tagName)
    \/ \E tagName \in RegistryTags : DefineFormValidationList(tagName)

SpecRegistry == InitRegistry /\ [][NextRegistry]_vars

----------------------------------------------------------------------------
(* Properties *)

\* rule i of the active rule set matches the current value of the field
MatchesRule(i) == RegExpTest(_rules[i].pattern, fieldValue[_field])

AllRulesMatch == \A i \in 1..Len(_rules) : MatchesRule(i)

MatchedCount == Cardinality({i \in 1..Len(_rules) : MatchesRule(i)})

\* the class names in force, read from the attributes without the cache
EffFieldInvalid == IF attrs["field-invalid-class"] \in {Null, ""}
                   THEN "validation-invalid" ELSE attrs["field-invalid-class"]
EffFieldValid == IF attrs["field-valid-class"] \in {Null, ""}
                 THEN "validation-valid" ELSE attrs["field-valid-class"]
EffRuleUnmatched == IF attrs["rule-unmatched-class"] \in {Null, ""}
                    THEN "validation-unmatched"
                    ELSE attrs["rule-unmatched-class"]
EffRuleMatched == IF attrs["rule-matched-class"] \in {Null, ""}
                  THEN "validation-matched" ELSE attrs["rule-matched-class"]

\* the event type in force
EffTriggerEvent == IF attrs["trigger-event"] \in {Null, ""}
                   THEN "input" ELSE attrs["trigger-event"]

\* C1: after validate() on a widget that holds a field, the value returned
\* is true iff every active rule matches the field's value, and the isValid
\* getter returns the same boolean.
C1_ValidateReturnsAllMatch ==
    (lastOp.op = "validate" /\ _field # Null) =>
        /\ lastOp.ret = AllRulesMatch
        /\ isValid(World) = lastOp.ret

\* validate() has returned true on a widget with at least two rules
C1_Witness ==
    /\ lastOp.op = "validate"
    /\ _field # Null
    /\ Len(_rules) >= 2
    /\ lastOp.ret

\* index of the first occurrence of token in toks, 0 when there is none
FirstIndex(toks, token) ==
    IF \E k \in 1..Len(toks) : toks[k] = token
    THEN CHOOSE k \in 1..Len(toks) :
             toks[k] = token /\ \A j \in 1..(k - 1) : toks[j] # token
    ELSE 0

\* the template in force, as tokens
EffTemplate == Tokens(IF attrs["validation-message"] \in {Null, ""}
                      THEN DefaultTemplate ELSE attrs["validation-message"])

\* C4: after an evaluation the field's custom-validity message is empty iff
\* every rule matched; when some rule did not match it is the template in
\* force (the default one when the attribute is absent or empty) in which
\* the first {matched} reads the matched count and the first {total} the
\* rule count, every other token unchanged, and it is not empty.
C4_ValidityMessage ==
    (evals > 0) =>
        LET msg == customValidity[_field]
        IN /\ (msg = <<>>) <=> AllRulesMatch
           /\ ~AllRulesMatch =>
                /\ Len(msg) = Len(EffTemplate)
                /\ \A k \in 1..Len(msg) :
                      msg[k] =
                        IF k = FirstIndex(EffTemplate, "{matched}")
                        THEN ToString(MatchedCount)
                        ELSE IF k = FirstIndex(EffTemplate, "{total}")
                        THEN ToString(Len(_rules))
                        ELSE EffTemplate[k]
                /\ msg # <<>>

\* an invalid evaluation under a template that repeats both placeholders
C4_Witness ==
    /\ evals > 0
    /\ attrs["validation-message"] = "{total}{matched}{matched}{total}"
    /\ Len(_rules) >= 2
    /\ MatchedCount = 1
    /\ customValidity[_field] = <<ToString(Len(_rules)), "1", "{matched}",
                                  "{total}">>

\* C5: while the widget is attached and set up on a field, the field's
\* custom-validity message is non-empty whenever some rule does not match
\* the field's current value.
C5_UnmatchedBlocksField ==
    (isConnected /\ _field # Null /\ _validationHandler # NoHandler
       /\ ~AllRulesMatch) =>
        customValidity[_field] # <<>>

\* C6: the validated events of an operation are as many as the evaluations
\* it ran; each carries the number of active rules, a matched count between
\* 0 and that number, isValid true iff the two are equal and equal to what
\* the isValid getter returned at dispatch, and the field of the widget;
\* validate() runs one evaluation iff the widget holds a field, and timers,
\* value changes and teardown run none.
C6_ValidatedEvent ==
    /\ Len(events) = evals
    /\ \A k \in 1..Len(events) :
          /\ events[k].totalRules = Len(_rules)
          /\ events[k].matchedRules \in 0..events[k].totalRules
          /\ events[k].isValid <=>
                events[k].matchedRules = events[k].totalRules
          /\ events[k].isValid = events[k].getter
          /\ events[k].field = _field
          /\ events[k].field # Null
    /\ lastOp.op = "validate" => evals = (IF _field # Null THEN 1 ELSE 0)
    /\ lastOp.op \in {"none", "timer", "setValue", "detach",
                      "disconnectedCallback"} => evals = 0

\* one evaluation reported one of two rules matched
C6_Witness ==
    /\ evals = 1
    /\ Len(events) = 1
    /\ events[1].matchedRules = 1
    /\ events[1].totalRules >= 2
    /\ ~events[1].isValid

\* C2 as stated: with stagger delay 0, after an evaluation every rule
\* element carries the rule-matched class and not the rule-unmatched class
\* if its pattern matches the field's value, the rule-unmatched class and
\* not the rule-matched class otherwise, and no update is pending.
C2_SyncRuleClasses ==
    (evals > 0 /\ eachDelay(World) = 0) =>
        /\ \A i \in 1..Len(_rules) :
              LET cl == ruleClasses[_rules[i].element]
              IN IF MatchesRule(i)
                 THEN EffRuleMatched \in cl /\ EffRuleUnmatched \notin cl
                 ELSE EffRuleUnmatched \in cl /\ EffRuleMatched \notin cl
        /\ _pendingTimeouts = {}
        /\ timers = {}

\* C2 amended: the same when the rule-matched and the rule-unmatched class
\* names in force differ; when they are one name, no rule element carries
\* it; in both cases no update is pending.
C2_SyncRuleClassesDistinct ==
    (evals > 0 /\ eachDelay(World) = 0) =>
        /\ \A i \in 1..Len(_rules) :
              LET cl == ruleClasses[_rules[i].element]
              IN IF EffRuleMatched = EffRuleUnmatched
                 THEN EffRuleMatched \notin cl
                 ELSE IF MatchesRule(i)
                 THEN EffRuleMatched \in cl /\ EffRuleUnmatched \notin cl
                 ELSE EffRuleUnmatched \in cl /\ EffRuleMatched \notin cl
        /\ _pendingTimeouts = {}
        /\ timers = {}

\* a synchronous evaluation under a custom rule-matched class, with one
\* rule matched and one not
C2_Witness ==
    /\ evals > 0
    /\ eachDelay(World) = 0
    /\ attrs["rule-matched-class"] = "c1"
    /\ EffRuleMatched # EffRuleUnmatched
    /\ \E i \in 1..Len(_rules) : MatchesRule(i)
    /\ \E i \in 1..Len(_rules) : ~MatchesRule(i)

\* C3 as stated: after an evaluation the field carries the field-valid
\* class and not the field-invalid class iff the matched count equals the
\* rule count, otherwise the field-invalid class and not the field-valid
\* class.
C3_FieldClassPair ==
    (evals > 0) =>
        LET cl == fieldClasses[_field]
        IN IF MatchedCount = Len(_rules)
           THEN EffFieldValid \in cl /\ EffFieldInvalid \notin cl
           ELSE EffFieldInvalid \in cl /\ EffFieldValid \notin cl

\* C3 amended: the same when the field-valid and the field-invalid class
\* names in force differ; when they are one name, the field does not carry
\* it.
C3_FieldClassPairDistinct ==
    (evals > 0) =>
        LET cl == fieldClasses[_field]
        IN IF EffFieldValid = EffFieldInvalid
           THEN EffFieldValid \notin cl
           ELSE IF MatchedCount = Len(_rules)
           THEN EffFieldValid \in cl /\ EffFieldInvalid \notin cl
           ELSE EffFieldInvalid \in cl /\ EffFieldValid \notin cl

\* a valid evaluation under two custom, different field class names
C3_Witness ==
    /\ evals > 0
    /\ attrs["field-valid-class"] = "c1"
    /\ attrs["field-invalid-class"] = "c2"
    /\ Len(_rules) >= 1
    /\ MatchedCount = Len(_rules)
    /\ "c1" \in fieldClasses[_field]

\* the default of a class-name attribute, the class in force under an
\* attribute map, and the other attribute of the pair
DefaultClass(name) ==
    CASE name = "field-invalid-class" -> "validation-invalid"
      [] name = "field-valid-class" -> "validation-valid"
      [] name = "rule-unmatched-class" -> "validation-unmatched"
      [] name = "rule-matched-class" -> "validation-matched"

EffClass(a, name) ==
    IF a[name] \in {Null, ""} THEN DefaultClass(name) ELSE a[name]

Sibling(name) ==
    CASE name = "field-invalid-class" -> "field-valid-class"
      [] name = "field-valid-class" -> "field-invalid-class"
      [] name = "rule-unmatched-class" -> "rule-matched-class"
      [] name = "rule-matched-class" -> "rule-unmatched-class"

\* the step is a teardown: a detach, a direct disconnectedCallback(), or a
\* change of the association on an attached widget
TeardownStep ==
    \/ lastOp'.op \in {"detach", "disconnectedCallback"}
    \/ /\ lastOp'.op = "setAttribute"
       /\ lastOp'.name = "for"
       /\ lastOp'.changed
       /\ isConnected

\* C7: a teardown of a set-up widget leaves its field without a listener
\* of the widget, without any class and with an empty custom-validity
\* message; when the step runs no new evaluation, no timer is pending and
\* no former rule element carries the rule-matched or the rule-unmatched
\* class; after a detach the widget holds no field and no rules, after a
\* re-association it does not hold the former field.
C7_Teardown ==
    [][(TeardownStep /\ _field # Null /\ _validationHandler # NoHandler) =>
          /\ \A l \in listeners' : l.field # _field
          /\ fieldClasses'[_field] = {}
          /\ customValidity'[_field] = <<>>
          /\ evals' = 0 =>
                /\ timers' = {}
                /\ _pendingTimeouts' = {}
                /\ \A i \in 1..Len(_rules) :
                      ruleClasses'[_rules[i].element]
                          \cap {EffRuleMatched, EffRuleUnmatched} = {}
          /\ lastOp'.op # "setAttribute" => _field' = Null /\ _rules' = <<>>
          /\ lastOp'.op = "setAttribute" => _field' # _field
      ]_vars

\* C8: a direct disconnectedCallback() that follows a teardown changes no
\* part of the widget, the fields, the rule elements or the timers; one
\* called while the widget holds no field, no rules and no handler changes
\* nothing but for the class-name caches, which it leaves empty.
C8_TeardownIdempotent ==
    [][(lastOp'.op = "disconnectedCallback") =>
          /\ lastOp.op \in {"detach", "disconnectedCallback"} =>
                UNCHANGED <<attrs, id, role, isConnected, _field, _rules,
                            _validationHandler, _isValid, _validClasses,
                            _invalidClasses, _matchedClasses,
                            _unmatchedClasses, _pendingTimeouts,
                            _currentTriggerEvent, stylesInjected, headStyles,
                            fieldValue, fieldClasses, customValidity,
                            describedBy, listeners, listenerOrder,
                            domRules, dataPattern, ruleClasses,
                            ruleRole, ruleLive, timers>>
          /\ (_field = Null /\ _rules = <<>> /\ _validationHandler = NoHandler)
                =>
                /\ UNCHANGED <<attrs, id, role, isConnected, _field, _rules,
                               _validationHandler, _isValid,
                               _pendingTimeouts, _currentTriggerEvent,
                               stylesInjected, headStyles, fieldValue,
                               fieldClasses, customValidity, describedBy,
                               listeners, listenerOrder, domRules,
                               dataPattern, ruleClasses, ruleRole,
                               ruleLive, timers>>
                /\ _validClasses' = Null
                /\ _invalidClasses' = Null
                /\ _matchedClasses' = Null
                /\ _unmatchedClasses' = Null
                /\ evals' = 0
      ]_vars

\* a second direct disconnectedCallback() in a row, on a widget that was
\* set up and evaluated before: styles are injected, the field is described
\* by the widget, and nothing is left on the field
C8_Witness ==
    /\ lastOp.op = "disconnectedCallback"
    /\ _field = Null
    /\ stylesInjected
    /\ isConnected
    /\ \E f \in Fields : Len(describedBy[f]) >= 1 /\ fieldValue[f] # <<>>
                         /\ describedBy[f][Len(describedBy[f])] = id
    /\ \A f \in Fields : fieldClasses[f] = {} /\ customValidity[f] = <<>>
    /\ listeners = {}

\* C9: when a class-name attribute of a set-up widget changes its value,
\* the class that was in force before (unless it is the new class or the
\* class of the paired attribute) is on no affected element afterwards, and
\* the new class (unless it is the class of the paired attribute) is on the
\* field iff the field's validity calls for it, and, with stagger delay 0,
\* on exactly the rule elements whose result calls for it.
C9_ClassChange ==
    [][(/\ lastOp'.op = "setAttribute"
        /\ lastOp'.changed
        /\ lastOp'.name \in FieldClassAttrs \cup RuleClassAttrs
        /\ _field # Null
        /\ _validationHandler # NoHandler) =>
          LET name == lastOp'.name
              oldC == EffClass(attrs, name)
              newC == EffClass(attrs', name)
              sib == EffClass(attrs', Sibling(name))
          IN /\ (oldC # newC /\ oldC # sib) =>
                   /\ name \in FieldClassAttrs =>
                         oldC \notin fieldClasses'[_field]
                   /\ name \in RuleClassAttrs =>
                         \A i \in 1..Len(_rules) :
                            oldC \notin ruleClasses'[_rules[i].element]
             /\ (newC # sib) =>
                   /\ name = "field-invalid-class" =>
                         (newC \in fieldClasses'[_field] <=> ~AllRulesMatch)
                   /\ name = "field-valid-class" =>
                         (newC \in fieldClasses'[_field] <=> AllRulesMatch)
                   /\ (name = "rule-unmatched-class"
                         /\ eachDelay(World) = 0) =>
                         \A i \in 1..Len(_rules) :
                            newC \in ruleClasses'[_rules[i].element]
                               <=> ~MatchesRule(i)
                   /\ (name = "rule-matched-class"
                         /\ eachDelay(World) = 0) =>
                         \A i \in 1..Len(_rules) :
                            newC \in ruleClasses'[_rules[i].element]
                               <=> MatchesRule(i)
      ]_vars

\* C10: the handler of a set-up widget is registered once, on the widget's
\* field and for the event type in force, and nowhere else; an event
\* dispatched on a field runs one evaluation and one validated event when
\* it is of that type on that field, and none otherwise.
C10_TriggerRebinding ==
    /\ _validationHandler # NoHandler =>
          listeners = {[field |-> _field, type |-> EffTriggerEvent,
                        handler |-> _validationHandler]}
    /\ _validationHandler = NoHandler => listeners = {}
    /\ lastOp.op = "dispatch" =>
          /\ evals = (IF /\ _validationHandler # NoHandler
                         /\ lastOp.field = _field
                         /\ lastOp.type = EffTriggerEvent
                      THEN 1 ELSE 0)
          /\ Len(events) = evals

\* the trigger event of a set-up widget has just changed from "input" to
\* "change", and the listener moved with it
C10_Witness ==
    /\ lastOp.op = "setAttribute"
    /\ lastOp.name = "trigger-event"
    /\ lastOp.changed
    /\ attrs["trigger-event"] = "change"
    /\ _validationHandler # NoHandler
    /\ listeners = {[field |-> _field, type |-> "change",
                     handler |-> _validationHandler]}

\* C11: the timers of the host that belong to the widget are exactly the
\* handles it tracks, and they are the staggered updates of its most recent
\* evaluation and of no other: they come from one evaluation, at most one
\* per active rule element, the one of rule i due after i times the delay
\* in force (counting from 0); when that evaluation found the field valid
\* every pending update is a matched one, and when it found it invalid and
\* no update has fired yet some pending update is an unmatched one.
C11_NoStaleUpdate ==
    /\ {t.id : t \in timers} = _pendingTimeouts
    /\ \A t \in timers : \A o \in timers :
          /\ t.gen = o.gen
          /\ t.element = o.element => t = o
    /\ \A t \in timers :
          /\ eachDelay(World) > 0
          /\ \E i \in 1..Len(_rules) :
                /\ _rules[i].element = t.element
                /\ t.ms = (i - 1) * eachDelay(World)
    /\ (timers # {} /\ _isValid) => \A t \in timers : t.matched
    /\ (timers # {} /\ ~_isValid /\ Cardinality(timers) = Len(_rules)) =>
          \E t \in timers : ~t.matched

\* an evaluation found rule 1 unmatched and its first update fired; before
\* the second one fired a new evaluation found rule 1 matched: both updates
\* of the new evaluation are pending, rule 1 still shows the old result and
\* rule 2 was never written
C11_Witness ==
    /\ Len(_rules) = 2
    /\ Cardinality(timers) = 2
    /\ \E t \in timers : t.element = _rules[1].element /\ t.matched
    /\ EffRuleUnmatched \in ruleClasses[_rules[1].element]
    /\ ruleClasses[_rules[2].element] = {}
    /\ lastOp.op \in {"dispatch", "validate"}

\* how often x occurs in the sequence q
Occurrences(q, x) == Cardinality({k \in 1..Len(q) : q[k] = x})

\* C12: after every step of the widget that leaves it set up on a field,
\* the widget has a non-empty id, the field's aria-describedby names that
\* id exactly once and names every id it named before the step exactly
\* once; no step of the widget removes an id reference from any field.
C12_DescribedBy ==
    [][(lastOp'.op # "setDescribedBy") =>
          /\ \A f \in Fields :
                \A k \in 1..Len(IdRefs(describedBy[f])) :
                   Occurrences(IdRefs(describedBy'[f]),
                               IdRefs(describedBy[f])[k]) >= 1
          /\ (_field' # Null /\ _validationHandler' # NoHandler) =>
                LET before == IdRefs(describedBy[_field'])
                    after == IdRefs(describedBy'[_field'])
                IN /\ id' # ""
                   /\ Occurrences(after, id') = 1
                   /\ \A k \in 1..Len(before) :
                         Occurrences(after, before[k]) = 1
      ]_vars

\* the step changes the value of the association attribute
ForChangeStep ==
    /\ lastOp'.op = "setAttribute"
    /\ lastOp'.name = "for"
    /\ lastOp'.changed

IdleOnMissingField ==
    /\ isConnected
    /\ Truthy(attrs["for"])
    /\ attrs["for"] \notin Fields

\* C14: an attached widget whose association id resolves to no element
\* holds no field, no rules and no handler, has no listener on any field and
\* no pending timer, and reports isValid false; every step other than a
\* change of the association (validate(), which returns false, a change of
\* another attribute, an event on a field, a direct lifecycle call, a
\* detach) leaves the classes, custom validity, description links and
\* listeners of every element as they are, runs no evaluation and
\* dispatches no validated event.
C14_IdleOnMissingField ==
    [][IdleOnMissingField =>
          /\ _field = Null
          /\ _rules = <<>>
          /\ _validationHandler = NoHandler
          /\ listeners = {}
          /\ timers = {}
          /\ ~isValid(World)
          /\ ~ForChangeStep =>
                /\ UNCHANGED <<fieldClasses, ruleClasses, customValidity,
                               describedBy, listeners, listenerOrder, timers>>
                /\ evals' = 0
                /\ events' = <<>>
                /\ _field' = Null
                /\ ~_isValid'
                /\ lastOp'.op = "validate" => ~lastOp'.ret
      ]_vars

\* validate() has just returned false on an attached widget whose
\* association names no element, while the widget has rule elements and f1
\* holds a value
C14_Witness ==
    /\ IdleOnMissingField
    /\ lastOp.op = "validate"
    /\ ~lastOp.ret
    /\ Len(domRules) >= 1
    /\ fieldValue["f1"] # <<>>
    /\ _field = Null

\* C15: isValid is never true with an empty rule set, no validated event
\* reports zero rules, and an operation on a widget that holds a field and
\* no rules runs no evaluation.
C15_NoZeroRuleEvaluation ==
    /\ _isValid => Len(_rules) > 0
    /\ \A k \in 1..Len(events) : events[k].totalRules > 0
    /\ (_field # Null /\ _rules = <<>>) => evals = 0

\* the registry maps the name to the widget's class
RegisteredAsWidget(reg, tagName) ==
    /\ reg.kind = "full"
    /\ registryGet(reg, tagName) = FormValidationListElement

\* C16: a call of defineFormValidationList(tagName) that returns, returns
\* true iff the registry then maps tagName to the widget's class.
C16_DefineReturnsRegistered ==
    (lastOp.op = "define" /\ ~lastOp.threw) =>
        (lastOp.ret <=> RegisteredAsWidget(registry, lastOp.name))

\* C17: a call of defineFormValidationList(tagName) does not throw; it
\* leaves the registry as it is when there is no usable registry or the
\* name is already defined, and otherwise defines the widget's class under
\* the name and nothing else.
C17_DefineNoThrow ==
    [][(lastOp'.op = "define") =>
          /\ ~lastOp'.threw
          /\ IF registry.kind # "full"
                \/ registryGet(registry, lastOp'.name) # Null
             THEN registry' = registry
             ELSE /\ RegisteredAsWidget(registry', lastOp'.name)
                  /\ \A t \in ValidTags \ {lastOp'.name} :
                        registry'.map[t] = registry.map[t]
                  /\ registry'.kind = registry.kind
      ]_vars

----------------------------------------------------------------------------
(* isValid getter *)

\* a step that sets the widget up or tears it down
SetupOrTeardownStep ==
    \/ lastOp'.op \in {"attach", "detach", "connectedCallback",
                       "disconnectedCallback"}
    \/ /\ lastOp'.op \in {"setAttribute", "setProperty"}
       /\ lastOp'.name \in {"for", "fieldId"}
       /\ lastOp'.changed
       /\ isConnected

----------------------------------------------------------------------------
(* Accessibility markings *)

\* C19: after an attach the root has role "list", also when setup found no
\* field; every element of the active rule set has role "listitem" and
\* aria-live "polite"; no step takes the role from the root, or the role
\* or the live marking from a rule element that has it.
C19_AccessibilityMarkings ==
    [][/\ lastOp'.op = "attach" => role' = "list"
       /\ role = "list" => role' = "list"
       /\ \A i \in 1..Len(_rules') :
             /\ ruleRole'[_rules'[i].element] = "listitem"
             /\ ruleLive'[_rules'[i].element] = "polite"
       /\ \A el \in RuleElements :
             /\ ruleRole[el] = "listitem" => ruleRole'[el] = "listitem"
             /\ ruleLive[el] = "polite" => ruleLive'[el] = "polite"]_vars

\* the widget was attached while its for attribute named no element: setup
\* aborted and the root has its role; the rule elements of an earlier
\* setup still have their markings
C19_Witness ==
    /\ lastOp.op = "attach"
    /\ attrs["for"] = MissingId
    /\ _field = Null
    /\ _rules = <<>>
    /\ role = "list"
    /\ Len(domRules) > 0
    /\ \A i \in 1..Len(domRules) :
          /\ ruleRole[domRules[i]] = "listitem"
          /\ ruleLive[domRules[i]] = "polite"

----------------------------------------------------------------------------
(* Property reflection *)

\* the values C20 counts as no value for a property
IsEmptyAssignment(prop, value) ==
    \/ value \in {JsNull, JsUndefined, JsString("")}
    \/ /\ prop = "eachDelay"
       /\ \/ ~ToNumber(value).finite
          \/ ToNumber(value).n < 0

\* what the getter of a property returns in the current state, as a string
\* (the number eachDelay returns is written out)
PropertyRead(prop) ==
    CASE prop \in {"for", "fieldId"} -> fieldId(World)
      [] prop = "triggerEvent" -> triggerEvent(World)
      [] prop = "eachDelay" ->
           NumberToString(eachDelay(World))
      [] prop = "fieldInvalidClass" -> fieldInvalidClass(World).ret
      [] prop = "fieldValidClass" -> fieldValidClass(World).ret
      [] prop = "ruleUnmatchedClass" -> ruleUnmatchedClass(World).ret
      [] prop = "ruleMatchedClass" -> ruleMatchedClass(World).ret

PropertyDefault(prop) ==
    CASE prop \in {"for", "fieldId"} -> Null
      [] prop = "triggerEvent" -> "input"
      [] prop = "eachDelay" -> "150"
      [] prop = "fieldInvalidClass" -> "validation-invalid"
      [] prop = "fieldValidClass" -> "validation-valid"
      [] prop = "ruleUnmatchedClass" -> "validation-unmatched"
      [] prop = "ruleMatchedClass" -> "validation-matched"

\* the assigned value as the getter would return it
AssignedValue(prop, value) ==
    IF prop = "eachDelay" THEN NumberToString(ToNumber(value).n)
    ELSE String(value)

----------------------------------------------------------------------------
(* Stagger delay *)

\* the number held as n is an integer
IsInteger(n) == n % PerUnit = 0

\* the each-delay attribute is absent, empty, non-numeric or negative
NoDelayGiven ==
    \/ attrs["each-delay"] \in {Null, ""}
    \/ ~Number(attrs["each-delay"]).finite
    \/ Number(attrs["each-delay"]).n < 0

\* C21: eachDelay returns a non-negative integer: 150 when the attribute is
\* absent, empty, non-numeric or negative, the attribute's number
\* otherwise; every pending update of rule i was scheduled at i times that
\* delay.
C21_DelayIsInteger ==
    /\ IsInteger(eachDelay(World))
    /\ eachDelay(World) >= 0
    /\ NoDelayGiven => eachDelay(World) = 150 * PerUnit
    /\ ~NoDelayGiven => eachDelay(World) = Number(attrs["each-delay"]).n
    /\ \A t \in timers :
          \E i \in 1..Len(_rules) :
             /\ _rules[i].element = t.element
             /\ t.ms = (i - 1) * eachDelay(World)

----------------------------------------------------------------------------
(* Cached class names *)

\* C22: each class-name getter returns what an uncached lookup returns:
\* the current value of its attribute, or its default when the attribute
\* is absent or empty.
C22_CacheNeverStale ==
    /\ fieldInvalidClass(World).ret =
          OrElse(attrs["field-invalid-class"], "validation-invalid")
    /\ fieldValidClass(World).ret =
          OrElse(attrs["field-valid-class"], "validation-valid")
    /\ ruleUnmatchedClass(World).ret =
          OrElse(attrs["rule-unmatched-class"], "validation-unmatched")
    /\ ruleMatchedClass(World).ret =
          OrElse(attrs["rule-matched-class"], "validation-matched")

\* a class-name attribute was changed while its cache was filled, the
\* change re-evaluated, and both field caches hold names again
C22_Witness ==
    /\ lastOp.op = "setAttribute"
    /\ lastOp.name = "field-invalid-class"
    /\ lastOp.changed
    /\ evals > 0
    /\ _invalidClasses = "c1"
    /\ _validClasses = "c2"

----------------------------------------------------------------------------
(* Properties assigned before the element is upgraded *)

\* C23: when fieldId and triggerEvent were assigned before the attach and
\* the widget has a rule, the attach leaves the widget bound to the field
\* of that id, with one listener, for that event type, on that field, and
\* without own properties; from then on an event dispatched on a field
\* runs an evaluation iff it is of the configured type and on the
\* widget's field.
C23_UpgradeKeepsConfiguration ==
    [][/\ (/\ lastOp'.op = "upgradeAttach"
           /\ ownProps["fieldId"] # NoProperty
           /\ ownProps["triggerEvent"] # NoProperty
           /\ Len(domRules) > 0) =>
              /\ attrs'["for"] = StringOf(ownProps["fieldId"])
              /\ attrs'["trigger-event"] = StringOf(ownProps["triggerEvent"])
              /\ _field' = StringOf(ownProps["fieldId"])
              /\ listeners' = {[field |-> StringOf(ownProps["fieldId"]),
                                type |-> StringOf(ownProps["triggerEvent"]),
                                handler |-> _validationHandler']}
              /\ \A prop \in DOMAIN ownProps : ownProps'[prop] = NoProperty
       /\ (/\ lastOp'.op = "dispatch"
           /\ _field # Null
           /\ Len(_rules) > 0) =>
              (evals' > 0 <=> /\ lastOp'.field = _field
                              /\ lastOp'.type = triggerEvent(World))]_vars

\* the element was given fieldId "f1" and triggerEvent "change" before its
\* upgrade, and a change event on f1 has just run an evaluation
C23_Witness ==
    /\ lastOp.op = "dispatch"
    /\ lastOp.field = "f1"
    /\ lastOp.type = "change"
    /\ evals > 0
    /\ upgraded
    /\ attrs["for"] = "f1"
    /\ attrs["trigger-event"] = "change"

----------------------------------------------------------------------------
(* Staggered updates *)

\* the position of a rule element in the active rule set (0 if it is not
\* in it)
RuleIndex(el) ==
    IF \E i \in 1..Len(_rules) : _rules[i].element = el
    THEN CHOOSE i \in 1..Len(_rules) : _rules[i].element = el
    ELSE 0

\* the timers that a step has taken from the host's queue
FiredOrCancelled == timers \ timers'

\* C24: a step that evaluates with a delay d > 0 changes no rule class and
\* leaves exactly one pending update per rule, that of the i-th rule (from
\* 0) due at i * d with the result for that rule; a timer step applies the
\* update of one rule, changes the classes of no other rule, and every
\* update still pending belongs to a later rule.
C24_CascadeInRuleOrder ==
    [][/\ (evals' > 0 /\ eachDelay(World)' > 0) =>
            /\ ruleClasses' = ruleClasses
            /\ Cardinality(timers') = Len(_rules')
            /\ \A i \in 1..Len(_rules') :
                  \E t \in timers' :
                     /\ t.element = _rules'[i].element
                     /\ t.ms = (i - 1) * eachDelay(World)'
                     /\ t.matched = MatchesRule(i)'
       /\ lastOp'.op = "timer" =>
            /\ Cardinality(FiredOrCancelled) = 1
            /\ \A t \in FiredOrCancelled :
                  /\ \A el \in RuleElements \ {t.element} :
                        ruleClasses'[el] = ruleClasses[el]
                  /\ \A o \in timers' :
                        RuleIndex(o.element) > RuleIndex(t.element)]_vars

\* in the middle of a cascade: the update of the first rule has been
\* applied by a timer and that of the second rule is still pending
C24_Witness ==
    /\ lastOp.op = "timer"
    /\ eachDelay(World) > 0
    /\ Len(_rules) >= 2
    /\ ruleClasses[_rules[1].element] # {}
    /\ ruleClasses[_rules[2].element] = {}
    /\ \E t \in timers : t.element = _rules[2].element

\* an evaluation with a positive delay has just run on the value v
EvaluatedWithDelay(v) ==
    /\ evals > 0
    /\ eachDelay(World) > 0
    /\ _field # Null
    /\ fieldValue[_field] = v

\* no update is pending and every active rule element carries the
\* rule-matched class iff its pattern matches v, the rule-unmatched class
\* otherwise
CascadeDone(v) ==
    /\ timers = {}
    /\ _pendingTimeouts = {}
    /\ \A i \in 1..Len(_rules) :
          LET classes == ruleClasses[_rules[i].element]
              matched == RegExpTest(_rules[i].pattern, v)
          IN /\ EffRuleMatched \in classes <=> matched
             /\ EffRuleUnmatched \in classes <=> ~matched

C26_TimersTracked ==
    [][/\ _pendingTimeouts' = {t.id : t \in timers'}
       /\ Cardinality(_pendingTimeouts') <= Len(_rules')
       /\ evals' = 0 => _pendingTimeouts' \subseteq _pendingTimeouts
       /\ (evals' > 0 /\ eachDelay(World)' = 0) => _pendingTimeouts' = {}
       /\ (evals' = 0 /\ SetupOrTeardownStep) => _pendingTimeouts' = {}
       /\ lastOp'.op = "timer" =>
             \E t \in timers : /\ timers' = timers \ {t}
                                /\ _pendingTimeouts' =
                                      _pendingTimeouts \ {t.id}]_vars

\* a timer has fired and removed its handle while another update of the
\* same evaluation is still pending
C26_Witness ==
    /\ lastOp.op = "timer"
    /\ _pendingTimeouts # {}
    /\ Cardinality(_pendingTimeouts) < Len(_rules)
    /\ _pendingTimeouts = {t.id : t \in timers}

----------------------------------------------------------------------------
(* Run to completion *)

\* C27: every evaluation a step starts has dispatched its validated event
\* by the end of the step; when the event is dispatched the evaluation has
\* computed the result of every rule on the value of the field, scheduled
\* the update of every rule (or applied it, when the delay is 0) and
\* updated the field's classes and message, and it does nothing after
\* the dispatch; the pending updates are those of one evaluation; a timer
\* step runs no evaluation.
C27_RunToCompletion ==
    [][/\ evals' > 0 =>
            /\ Len(events') = evals'
            /\ LET e == events'[Len(events')]
               IN /\ e.totalRules = Len(_rules')
                  /\ e.matchedRules = MatchedCount'
                  /\ IF eachDelay(World)' > 0
                     THEN Cardinality(e.pending) = e.totalRules
                     ELSE e.pending = {}
                  /\ e.message = <<>> <=> e.isValid
                  /\ e.pending = _pendingTimeouts'
                  /\ e.fieldClasses = fieldClasses'[_field']
                  /\ e.message = customValidity'[_field']
            /\ Cardinality({t.gen : t \in timers'}) <= 1
       /\ lastOp'.op = "timer" => evals' = 0 /\ events' = <<>>]_vars

\* an input event has run one evaluation, which found the value invalid
\* and had scheduled the updates of both rules when it dispatched its event
C27_Witness ==
    /\ lastOp.op = "dispatch"
    /\ evals = 1
    /\ Len(events) = 1
    /\ ~events[1].isValid
    /\ Cardinality(events[1].pending) = 2
    /\ events[1].message # <<>>

----------------------------------------------------------------------------
(* Attribute changes on a set-up widget *)

\* the delay the each-delay attribute asks for
DelayInForce ==
    IF NoDelayGiven THEN 150 * PerUnit ELSE Number(attrs["each-delay"]).n

\* the last step changed the value of the attribute name
AttributeChanged(name) ==
    /\ lastOp.op = "setAttribute"
    /\ lastOp.name = name
    /\ lastOp.changed

\* C28: a change of each-delay on a widget that has a field runs one
\* evaluation; after it the pending handles are the host's live timers; if
\* the new delay is 0 no timer is left and every rule carries the class of
\* its result; if it is positive the rule classes are as before and the
\* live timers are exactly one per rule, that of the i-th rule (from 0) due
\* at i times the new delay with the result of the fresh evaluation.
C28_DelayChangeRestartsCascade ==
    [][(AttributeChanged("each-delay")' /\ _field # Null) =>
          /\ evals' = 1
          /\ Len(events') = 1
          /\ _field' = _field
          /\ _pendingTimeouts' = {t.id : t \in timers'}
          /\ IF DelayInForce' = 0
             THEN CascadeDone(fieldValue[_field])'
             ELSE /\ ruleClasses' = ruleClasses
                  /\ Cardinality(timers') = Len(_rules')
                  /\ \A i \in 1..Len(_rules') :
                        \E t \in timers' :
                           /\ t.element = _rules'[i].element
                           /\ t.ms = (i - 1) * DelayInForce'
                           /\ t.matched = MatchesRule(i)']_vars

\* each-delay has been changed to 1.5 while updates were in flight: the
\* update of the second rule is now due at 1.5
C28_Witness ==
    /\ AttributeChanged("each-delay")
    /\ lastOp.inFlight
    /\ attrs["each-delay"] = "1.5"
    /\ Len(_rules) >= 2
    /\ \E t \in timers : t.element = _rules[2].element /\ t.ms = 3

\* the message of the template in force: the first {matched} reads the
\* matched count, the first {total} the rule count
TemplateMessage ==
    [k \in 1..Len(EffTemplate) |->
        IF k = FirstIndex(EffTemplate, "{matched}")
        THEN ToString(MatchedCount)
        ELSE IF k = FirstIndex(EffTemplate, "{total}")
        THEN ToString(Len(_rules))
        ELSE EffTemplate[k]]

\* the widget and the page without the widget's attributes
WidgetAndPage ==
    <<id, role, isConnected,
      _field, _rules, _validationHandler, _isValid,
      _validClasses, _invalidClasses, _matchedClasses, _unmatchedClasses,
      _pendingTimeouts, _currentTriggerEvent,
      stylesInjected, headStyles,
      fieldValue, fieldClasses, customValidity, describedBy,
      listeners, listenerOrder,
      domRules, dataPattern, ruleClasses, ruleRole, ruleLive, timers,
      registry, upgraded, ownProps, peer>>

\* a step leaves every attribute but name as it is
OnlyAttribute(name) ==
    \A n \in ObservedAttributes \ {name} : attrs'[n] = attrs[n]

\* C29: a change of validation-message on a widget that has a field runs
\* one evaluation on the field's current value, after which the field's
\* message is empty if every rule matches and otherwise is the new
\* template (the default one when the attribute is now absent or empty)
\* with the counts in place of the first {matched} and the first {total};
\* on a widget without a field the change runs no evaluation and changes
\* nothing but the attribute.
C29_TemplateChangeRefreshesMessage ==
    [][AttributeChanged("validation-message")' =>
          /\ OnlyAttribute("validation-message")
          /\ IF _field # Null
             THEN /\ evals' = 1
                  /\ _field' = _field
                  /\ fieldValue' = fieldValue
                  /\ _isValid' = AllRulesMatch'
                  /\ customValidity'[_field] =
                        IF AllRulesMatch' THEN <<>> ELSE TemplateMessage'
             ELSE /\ evals' = 0
                  /\ events' = <<>>
                  /\ WidgetAndPage' = WidgetAndPage]_vars

\* the template of a widget whose field is invalid has just been changed,
\* and the field's message is the new template with the counts in it
C29_Witness ==
    /\ AttributeChanged("validation-message")
    /\ attrs["validation-message"] = "{total}{matched}{matched}{total}"
    /\ _field # Null
    /\ Len(_rules) >= 2
    /\ MatchedCount = 1
    /\ customValidity[_field] = <<ToString(Len(_rules)), "1", "{matched}",
                                  "{total}">>

\* what a change of the trigger event leaves alone: everything but the
\* attribute, the listeners and the event name the widget remembers
RebindFrame ==
    <<id, role, isConnected,
      _field, _rules, _validationHandler, _isValid,
      _validClasses, _invalidClasses, _matchedClasses, _unmatchedClasses,
      _pendingTimeouts,
      stylesInjected, headStyles,
      fieldValue, fieldClasses, customValidity, describedBy,
      domRules, dataPattern, ruleClasses, ruleRole, ruleLive, timers,
      registry, upgraded, ownProps>>

\* C30: a change of trigger-event runs no evaluation and dispatches no
\* validated event; it leaves the handler, the field reference, the rule
\* set, isValid, the field's classes and message, the rule classes, the
\* pending updates and everything else but the listeners as they were; the
\* listeners of a widget that has a handler become that handler on that
\* field for the new event type and nothing else, and those of a widget
\* without a handler do not change.
C30_TriggerChangeOnlyRebinds ==
    [][AttributeChanged("trigger-event")' =>
          /\ OnlyAttribute("trigger-event")
          /\ evals' = 0
          /\ events' = <<>>
          /\ RebindFrame' = RebindFrame
          /\ listeners' =
                IF _validationHandler # NoHandler
                THEN {[field |-> _field, type |-> EffTriggerEvent',
                       handler |-> _validationHandler]}
                ELSE listeners]_vars

\* the trigger event of a set-up widget has just changed to "change" while
\* staggered updates were in flight; they are still pending and the
\* listener is on the new event
C30_Witness ==
    /\ AttributeChanged("trigger-event")
    /\ attrs["trigger-event"] = "change"
    /\ lastOp.inFlight
    /\ timers # {}
    /\ _field # Null
    /\ customValidity[_field] # <<>>
    /\ listeners = {[field |-> _field, type |-> "change",
                     handler |-> _validationHandler]}

----------------------------------------------------------------------------
(* Setup *)

\* the step runs a setup: an attach, a direct connectedCallback(), or a
\* change of the association on an attached widget
SetupStep ==
    \/ lastOp'.op \in {"attach", "upgradeAttach", "connectedCallback"}
    \/ /\ lastOp'.op = "setAttribute"
       /\ lastOp'.name = "for"
       /\ lastOp'.changed
       /\ isConnected

\* the last step was a setup that found a field and a rule and ran no
\* evaluation
SetUpUnevaluated ==
    /\ \/ lastOp.op \in {"attach", "upgradeAttach", "connectedCallback"}
       \/ AttributeChanged("for") /\ isConnected
    /\ _field # Null
    /\ Len(_rules) >= 1
    /\ evals = 0

\* a setup that found a field and a rule evaluates iff the field's value
\* is not empty; when it is empty the setup dispatches no event, leaves
\* isValid false and does not touch the field's classes and message
SetupEvaluatesNonEmpty ==
    (SetupStep /\ _field' # Null /\ Len(_rules') >= 1) =>
        LET f == _field'
        IN /\ evals' = (IF fieldValue[f] # <<>> THEN 1 ELSE 0)
           /\ Len(events') = evals'
           /\ fieldValue' = fieldValue
           /\ fieldValue[f] = <<>> =>
                 /\ ~_isValid'
                 /\ fieldClasses'[f] = fieldClasses[f]
                 /\ customValidity'[f] = customValidity[f]
                 /\ _field # f =>
                       /\ customValidity'[f] = <<>>
                       /\ fieldClasses'[f] = {}

\* C31 as stated: a setup that found a field and a rule evaluates iff the
\* field's value is not empty, and after a setup on an empty value the
\* next evaluation is that of a trigger event or of validate() (or of
\* another setup).
C31_SetupEvaluatesNonEmpty ==
    [][/\ SetupEvaluatesNonEmpty
       /\ (SetUpUnevaluated /\ evals' > 0) =>
             \/ lastOp'.op \in {"dispatch", "validate"}
             \/ SetupStep]_vars

\* C31 amended: the same, where the next evaluation may also be that of a
\* change of an attribute that re-evaluates.
C31_SetupEvaluatesNonEmptyOrAttribute ==
    [][/\ SetupEvaluatesNonEmpty
       /\ (SetUpUnevaluated /\ evals' > 0) =>
             \/ lastOp'.op \in {"dispatch", "validate"}
             \/ SetupStep
             \/ /\ lastOp'.op = "setAttribute"
                /\ lastOp'.changed
                /\ lastOp'.name \in
                      {"each-delay", "validation-message"}
                        \cup FieldClassAttrs \cup RuleClassAttrs]_vars

\* the widget has just been attached to a field whose value is empty: it
\* has a listener and its rules, and nothing has been evaluated
C31_Witness ==
    /\ lastOp.op = "attach"
    /\ SetUpUnevaluated
    /\ fieldValue[_field] = <<>>
    /\ ~_isValid
    /\ listeners # {}
    /\ customValidity[_field] = <<>>
    /\ fieldClasses[_field] = {}

----------------------------------------------------------------------------
(* Rule set *)

\* what a scan of the widget's descendants finds now
RulesInDocument ==
    [i \in 1..Len(domRules) |->
        [element |-> domRules[i],
         pattern |-> dataPattern[domRules[i]],
         regex |-> dataPattern[domRules[i]]]]

\* C32: a setup that resolves a field leaves as rule set the descendants
\* that carry a pattern at that moment, in document order, each with its
\* pattern text and the matcher compiled from it, and a setup that
\* resolves none leaves it empty; a detach or a disconnectedCallback()
\* empties it; every other step (an evaluation, validate(), a change of
\* another attribute, a timer, an edit of the rule elements or of their
\* patterns by the page) leaves it as it was.
C32_RuleSetIsSnapshot ==
    [][/\ SetupStep =>
            _rules' = IF _field' # Null THEN RulesInDocument ELSE <<>>
       /\ lastOp'.op \in {"detach", "disconnectedCallback"} =>
            _rules' = <<>>
       /\ ~(SetupStep \/ TeardownStep) => _rules' = _rules]_vars

\* validate() has just evaluated a rule set that is no longer what the
\* document holds: a rule element has been removed and the pattern of the
\* first rule rewritten since the setup
C32_Witness ==
    /\ lastOp.op = "validate"
    /\ evals = 1
    /\ Len(_rules) = 2
    /\ Len(domRules) < 2
    /\ _rules[1].pattern # dataPattern[_rules[1].element]
    /\ _rules # RulesInDocument

----------------------------------------------------------------------------
(* Idle widget *)

\* C34: a widget that holds no field reports isValid false, has an empty
\* rule set and no handler, has no listener on any field, and has no
\* staggered update pending, neither as a handle nor as a timer of the
\* host.
C34_IdleState ==
    (_field = Null) =>
        /\ ~_isValid
        /\ _rules = <<>>
        /\ _validationHandler = NoHandler
        /\ listeners = {}
        /\ _pendingTimeouts = {}
        /\ timers = {}

\* an attached widget has just lost its field while staggered updates
\* were in flight: its association now names no element
C34_Witness ==
    /\ AttributeChanged("for")
    /\ lastOp.inFlight
    /\ isConnected
    /\ attrs["for"] = MissingId
    /\ _field = Null
    /\ Len(domRules) >= 1

----------------------------------------------------------------------------
(* Listener *)

\* C35: at most one listener is registered; a registered listener is the
\* widget's handler, on the field the widget holds, for the event type the
\* trigger-event attribute asks for ("input" when it is absent or empty),
\* which is also the event type the widget has recorded; an event
\* dispatched on a field runs at most one evaluation.
C35_SingleListener ==
    /\ Cardinality(listeners) <= 1
    /\ \A l \in listeners :
          /\ l.handler = _validationHandler
          /\ l.handler # NoHandler
          /\ l.field = _field
          /\ l.type = EffTriggerEvent
          /\ l.type = _currentTriggerEvent
    /\ lastOp.op = "dispatch" => evals <= 1 /\ Len(events) <= 1

\* a change event has just run the one evaluation of a widget whose
\* listener is registered for change
C35_Witness ==
    /\ lastOp.op = "dispatch"
    /\ lastOp.type = "change"
    /\ lastOp.field = _field
    /\ evals = 1
    /\ _currentTriggerEvent = "change"
    /\ Cardinality(listeners) = 1

----------------------------------------------------------------------------
(* What a teardown leaves *)

\* C36: a teardown (a detach, a direct disconnectedCallback(), a change of
\* the association on an attached widget) leaves the widget's role, its
\* id when it has one, and the description links of the field it held as
\* they were, and the role and aria-live of the rule elements it held; a
\* detach leaves the id and those of every element (the setup that
\* follows a change of the association gives a widget without an id one).
\* When the widget was set up with rules, the links of the field it held
\* name the widget's id after the step.
C36_TeardownFrame ==
    [][TeardownStep =>
          /\ id # "" => id' = id
          /\ role' = role
          /\ _field # Null => describedBy'[_field] = describedBy[_field]
          /\ \A i \in 1..Len(_rules) :
                /\ ruleRole'[_rules[i].element] = ruleRole[_rules[i].element]
                /\ ruleLive'[_rules[i].element] = ruleLive[_rules[i].element]
          /\ lastOp'.op \in {"detach", "disconnectedCallback"} =>
                /\ id' = id
                /\ describedBy' = describedBy
                /\ ruleRole' = ruleRole
                /\ ruleLive' = ruleLive
          /\ (_field # Null /\ _validationHandler # NoHandler) =>
                /\ id' # ""
                /\ Occurrences(IdRefs(describedBy'[_field]), id') >= 1
                /\ \A i \in 1..Len(_rules) :
                      /\ ruleRole'[_rules[i].element] = "listitem"
                      /\ ruleLive'[_rules[i].element] = "polite"]_vars

\* the widget has moved from f1 to f2: it holds f2, and the links of f1
\* still name its id
C36_Witness ==
    /\ AttributeChanged("for")
    /\ isConnected
    /\ _field = "f2"
    /\ id # ""
    /\ Occurrences(IdRefs(describedBy["f1"]), id) >= 1
    /\ Occurrences(IdRefs(describedBy["f2"]), id) >= 1
    /\ role = "list"

----------------------------------------------------------------------------
(* Field before rules *)

\* C37: a step that evaluates with a delay d > 0 adds no class to any rule
\* element, and changes none when it is a field event or validate() (a
\* teardown in the same step may remove some); at its end isValid tells
\* whether every rule matches,
\* the field carries the class of that result and not the other one, its
\* message is empty iff the result is valid, and the validated event with
\* that result has been dispatched, with the field's classes and message
\* already in place at the dispatch.
C37_FieldBeforeRules ==
    [][(evals' > 0 /\ eachDelay(World)' > 0) =>
          /\ \A el \in RuleElements : ruleClasses'[el] \subseteq ruleClasses[el]
          /\ lastOp'.op \in {"dispatch", "validate"} =>
                ruleClasses' = ruleClasses
          /\ _isValid' = AllRulesMatch'
          /\ LET cl == fieldClasses'[_field']
             IN IF AllRulesMatch'
                THEN EffFieldValid' \in cl /\ EffFieldInvalid' \notin cl
                ELSE EffFieldInvalid' \in cl /\ EffFieldValid' \notin cl
          /\ customValidity'[_field'] = <<>> <=> AllRulesMatch'
          /\ Len(events') = 1
          /\ events'[1].isValid = AllRulesMatch'
          /\ events'[1].fieldClasses = fieldClasses'[_field']
          /\ events'[1].message = customValidity'[_field']]_vars

\* an evaluation with a positive delay has just found the field valid and
\* said so in its event, while the first rule element still carries the
\* rule-unmatched class of an earlier evaluation and the second none
C37_Witness ==
    /\ evals = 1
    /\ eachDelay(World) > 0
    /\ Len(_rules) = 2
    /\ _isValid
    /\ events[1].isValid
    /\ EffFieldValid \in fieldClasses[_field]
    /\ customValidity[_field] = <<>>
    /\ EffRuleUnmatched \in ruleClasses[_rules[1].element]
    /\ ruleClasses[_rules[2].element] = {}
    /\ Cardinality(timers) = 2

----------------------------------------------------------------------------
(* Exclusive classes *)

\* no rule element carries both the rule-matched and the rule-unmatched
\* class in force
RuleClassesExclusive ==
    \A el \in RuleElements :
       ~(EffRuleMatched \in ruleClasses[el]
           /\ EffRuleUnmatched \in ruleClasses[el]
           /\ EffRuleMatched # EffRuleUnmatched)

\* the field the widget holds does not carry both the field-valid and the
\* field-invalid class in force
FieldClassesExclusive ==
    (_field # Null) =>
        ~(EffFieldValid \in fieldClasses[_field]
            /\ EffFieldInvalid \in fieldClasses[_field]
            /\ EffFieldValid # EffFieldInvalid)

\* C38: in every state no rule element carries both the rule-matched and
\* the rule-unmatched class in force, and the field the widget holds does
\* not carry both the field-valid and the field-invalid class in force.
C38_ClassExclusivity ==
    /\ RuleClassesExclusive
    /\ FieldClassesExclusive

----------------------------------------------------------------------------
(* Style injection *)

\* an instance, the first or the second, is inserted into the document
AttachStep == lastOp'.op \in {"attach", "peerAttach", "upgradeAttach"}

\* C33: the style element with the widget's style id is appended to the
\* document head by the first attach of the process and by nothing else:
\* every later attach, of either instance and after any number of detaches,
\* leaves the head as it was, so the head never holds more than one
C33_StylesInjectedOnce ==
    [][/\ headStyles' = IF AttachStep /\ headStyles = 0 THEN 1
                        ELSE headStyles
       /\ headStyles' <= 1]_vars

\* both instances are attached, the second one last, and the head holds one
\* style element
C33_Witness ==
    /\ lastOp.op = "peerAttach"
    /\ isConnected
    /\ peer.isConnected
    /\ headStyles = 1

----------------------------------------------------------------------------
(* Two instances on one field *)

\* both instances hold the field f1 and the last step was an event on it
\* that both evaluated
BothEvaluated ==
    /\ lastOp.op = "dispatch"
    /\ lastOp.field = "f1"
    /\ _field = "f1"
    /\ peer._field = "f1"
    /\ evals = 2

\* the field carries the field-valid class and no custom-validity message
FieldMarkedValid ==
    /\ EffFieldValid \in fieldClasses["f1"]
    /\ customValidity["f1"] = <<>>

\* C39: when two instances of the widget are set up on the same field and
\* both evaluate on the same trigger event, the field carries the
\* field-valid class and an empty custom-validity message afterwards only
\* if isValid is true in both of them.
C39_SharedFieldConsistent ==
    (BothEvaluated /\ FieldMarkedValid) => (_isValid /\ peer._isValid)

====
